---- MODULE Spec2Model ----
(***************************************************************************)
(* Decoder and renderer of the cardano-node transaction rejection payload  *)
(* (src/cbor/codec.rs, src/cbor/haskell_types.rs,                          *)
(* src/cbor/haskell_display.rs, src/cbor/haskells_show_string.rs,          *)
(* src/node/transactions.rs), and the node handlers that call them         *)
(* (src/node/connection.rs, src/node.rs); and the configuration built from *)
(* the command line (src/cli.rs).                                          *)
(*                                                                         *)
(* Spec     : one buffer is decoded at one type and rendered.              *)
(* NodeSpec : one node handler runs from its entry to its return.          *)
(* TaskSpec : decode-and-render invocations run one after another on one   *)
(*            worker thread.                                               *)
(* ConfigSpec : the configuration is built from one set of arguments.      *)
(*                                                                         *)
(* A buffer is a sequence of bytes 0..255.  A decoder position is the      *)
(* number of bytes consumed (Rust's 0-based d.position()); the byte at     *)
(* position p is b[p + 1].  Every decode step returns a record             *)
(*   [st, pos, val, msg, bad]                                              *)
(* st = "ok"    : a value val, the decoder left at pos                     *)
(* st = "err"   : Err(decode::Error) with message msg about value bad      *)
(* st = "panic" : the thread panicked (unwrap, expect, slice index, todo!) *)
(* st = "ext"   : the field is decoded by code outside src/ (a pallas      *)
(*                type, or a type the sources at hand do not determine).   *)
(***************************************************************************)
EXTENDS Integers, Sequences, FiniteSets, TLC

VARIABLES
    target,    \* the type the buffer is decoded at (TxValidationError: try_decode_error)
    buffer,    \* the bytes handed to the decoder
    hashSeed,  \* the state of the process's HashMap hasher
    pc,        \* "start", "decoded", "failed", "rendered", "rendered_in_map",
               \* "panicked", "outside"
    result,    \* what the decoder returned
    response,  \* what the renderer returned
    call,      \* the node handler in progress: where it stands, what it has
               \* sent and got, what it returned
    tasks,     \* the decode-and-render invocations queued on one worker thread
    cli        \* the arguments of the command line and the Config built from them

vars == <<target, buffer, hashSeed, pc, result, response, call, tasks, cli>>

Ok(p, v) == [st |-> "ok", pos |-> p, val |-> v, msg |-> "", bad |-> -1]

Err(m, n) == [st |-> "err", pos |-> 0, val |-> 0, msg |-> m, bad |-> n]

Panic(m) == [st |-> "panic", pos |-> 0, val |-> 0, msg |-> m, bad |-> -1]

Ext == [st |-> "ext", pos |-> 0, val |-> 0, msg |-> "", bad |-> -1]

EndOfInput == Err("end of input bytes", -1)

\* The ? operator: a failure of r is the result, else the rest runs on r.
Then(r, K(_)) == IF r.st # "ok" THEN r ELSE K(r)

(***************************************************************************)
(* minicbor::Decoder primitives, as codec.rs calls them.                   *)
(***************************************************************************)
MajorType(byte) == byte \div 32

InfoOf(byte) == byte % 32

ArgWidth(n) == CASE n = 24 -> 1 [] n = 25 -> 2 [] n = 26 -> 4 [] n = 27 -> 8 [] OTHER -> 0

RECURSIVE BigEndian(_, _, _, _)
BigEndian(b, p, n, acc) ==
    IF n = 0 THEN acc ELSE BigEndian(b, p + 1, n - 1, acc * 256 + b[p + 1])

\* Decoder::unsigned: the argument of a head whose additional information is n,
\* p being the position after the head byte.
Unsigned(b, p, n) ==
    IF n < 24 THEN Ok(p, n)
    ELSE IF n > 27 THEN Err("unexpected type: expected unsigned argument", n)
    ELSE IF p + ArgWidth(n) > Len(b) THEN EndOfInput
    ELSE Ok(p + ArgWidth(n), BigEndian(b, p, ArgWidth(n), 0))

\* d.array(): Some(len) for a definite header, None (val = -1) for 0x9f.
Array(b, p) ==
    IF p >= Len(b) THEN EndOfInput
    ELSE IF MajorType(b[p + 1]) # 4 THEN Err("unexpected type: expected array", b[p + 1])
    ELSE IF InfoOf(b[p + 1]) = 31 THEN Ok(p + 1, -1)
    ELSE Unsigned(b, p + 1, InfoOf(b[p + 1]))

\* d.map(): Some(len) for a definite header, None (val = -1) for 0xbf.
Map(b, p) ==
    IF p >= Len(b) THEN EndOfInput
    ELSE IF MajorType(b[p + 1]) # 5 THEN Err("unexpected type: expected map", b[p + 1])
    ELSE IF InfoOf(b[p + 1]) = 31 THEN Ok(p + 1, -1)
    ELSE Unsigned(b, p + 1, InfoOf(b[p + 1]))

\* d.u64(): an unsigned integer of any encoded width.
U64(b, p) ==
    IF p >= Len(b) THEN EndOfInput
    ELSE IF MajorType(b[p + 1]) # 0 \/ InfoOf(b[p + 1]) > 27
         THEN Err("unexpected type: expected u64", b[p + 1])
    ELSE Unsigned(b, p + 1, InfoOf(b[p + 1]))

\* The conversion of a decoded u64 into a narrower unsigned type.
FitsIn(r, name, limit) ==
    IF r.st # "ok"
    THEN (IF r.msg = "unexpected type: expected u64"
          THEN Err("unexpected type: expected " \o name, r.bad) ELSE r)
    ELSE IF r.val >= limit THEN Err("when converting to " \o name, r.val)
    ELSE r

\* d.u16(): as u64, and the value has to fit 16 bits.
U16(b, p) == FitsIn(U64(b, p), "u16", 65536)

\* d.u8(): as u64, and the value has to fit 8 bits.
U8(b, p) == FitsIn(U64(b, p), "u8", 256)

\* d.i8(): an integer of major type 0 or 1 within -128..127.
I8(b, p) ==
    IF p >= Len(b) THEN EndOfInput
    ELSE IF MajorType(b[p + 1]) \notin {0, 1} \/ InfoOf(b[p + 1]) > 27
         THEN Err("unexpected type: expected i8", b[p + 1])
    ELSE Then(Unsigned(b, p + 1, InfoOf(b[p + 1])), LAMBDA r :
         IF r.val > 127 THEN Err("when converting to i8", r.val)
         ELSE Ok(r.pos, IF MajorType(b[p + 1]) = 0 THEN r.val ELSE -1 - r.val))

\* d.tag(): the number of a tag head.
Tag(b, p) ==
    IF p >= Len(b) THEN EndOfInput
    ELSE IF MajorType(b[p + 1]) # 6 THEN Err("unexpected type: expected tag", b[p + 1])
    ELSE Unsigned(b, p + 1, InfoOf(b[p + 1]))

\* The content of a definite-length string whose head argument is n.
Content(b, n) ==
    IF n.pos + n.val > Len(b) THEN EndOfInput
    ELSE Ok(n.pos + n.val, SubSeq(b, n.pos + 1, n.pos + n.val))

\* d.bytes(): a definite-length byte string, its content as the value.
Bytes(b, p) ==
    IF p >= Len(b) THEN EndOfInput
    ELSE IF MajorType(b[p + 1]) # 2 \/ InfoOf(b[p + 1]) = 31
         THEN Err("unexpected type: expected bytes (definite length)", b[p + 1])
    ELSE Then(Unsigned(b, p + 1, InfoOf(b[p + 1])), LAMBDA n : Content(b, n))

\* d.str(): a definite-length text string, its bytes as the value (the model's
\* inputs hold valid UTF-8 only).
Str(b, p) ==
    IF p >= Len(b) THEN EndOfInput
    ELSE IF MajorType(b[p + 1]) # 3 \/ InfoOf(b[p + 1]) = 31
         THEN Err("unexpected type: expected str (definite length)", b[p + 1])
    ELSE Then(Unsigned(b, p + 1, InfoOf(b[p + 1])), LAMBDA n : Content(b, n))

\* d.probe().datatype(): the type of the next value, the position unchanged.
Datatype(b, p) ==
    IF p >= Len(b) THEN EndOfInput
    ELSE LET n == b[p + 1]
         IN  CASE n <= 24 -> Ok(p, "U8")
               [] n = 25 -> Ok(p, "U16")
               [] n = 26 -> Ok(p, "U32")
               [] n = 27 -> Ok(p, "U64")
               [] n >= 32 /\ n <= 59 -> Ok(p, "Int")
               [] n >= 64 /\ n <= 91 -> Ok(p, "Bytes")
               [] n = 95 -> Ok(p, "BytesIndef")
               [] n >= 96 /\ n <= 123 -> Ok(p, "String")
               [] n = 127 -> Ok(p, "StringIndef")
               [] n >= 128 /\ n <= 155 -> Ok(p, "Array")
               [] n = 159 -> Ok(p, "ArrayIndef")
               [] n >= 160 /\ n <= 187 -> Ok(p, "Map")
               [] n = 191 -> Ok(p, "MapIndef")
               [] n >= 192 /\ n <= 219 -> Ok(p, "Tag")
               [] n = 255 -> Ok(p, "Break")
               [] n >= 224 -> Ok(p, "Simple")
               [] OTHER -> Err("unknown type", n)

(***************************************************************************)
(* Type descriptors: the static type a d.decode() call is resolved at.     *)
(* Field types are those of haskell_types.rs where it declares the variant *)
(* with the number of fields codec.rs reads; TExt everywhere else.         *)
(***************************************************************************)
T(kind) == [k |-> kind, n |-> "", of |-> <<>>]

TOf(kind, args) == [k |-> kind, n |-> "", of |-> args]

TEnum(name) == [k |-> "Enum", n |-> name, of |-> <<>>]

TExt == T("Ext")

TCoin == T("DisplayCoin")

TVec(t) == TOf("Vec", <<t>>)

TSet258(t) == TOf("CustomSet258", <<t>>)

TCborBytes(t) == TOf("CborBytes", <<t>>)

TStrictMaybe(t) == TOf("StrictMaybe", <<t>>)

THashMap(kt, vt) == TOf("HashMap", <<kt, vt>>)

\* A variant a discriminant selects: its constructor and the types of the
\* fields read after the discriminant.
V(name, fields) == [known |-> TRUE, name |-> name, fields |-> fields, msg |-> ""]

\* The `_ => Err(decode::Error::message(..))` arm of a match.
Unknown(m) == [known |-> FALSE, name |-> "", fields |-> <<>>, msg |-> m]

ApplyConwayTxPredError(tag) ==
    CASE tag = 1 -> V("ConwayUtxowFailure", <<TEnum("ConwayUtxoWPredFailure")>>)
      [] tag = 2 -> V("ConwayCertsFailure", <<TEnum("ConwayCertsPredFailure")>>)
      [] tag = 3 -> V("ConwayGovFailure", <<TEnum("ConwayGovPredFailure")>>)
      [] tag = 4 -> V("ConwayWdrlNotDelegatedToDRep", <<TVec(T("KeyHash"))>>)
      [] tag = 5 -> V("ConwayTreasuryValueMismatch", <<TCoin, TCoin>>)
      [] tag = 6 -> V("ConwayTxRefScriptsSizeTooBig", <<T("I8"), T("I8")>>)
      [] tag = 7 -> V("ConwayMempoolFailure", <<T("String")>>)
      [] OTHER -> Unknown("unknown error tag while decoding ApplyTxPredError")

ShelleyPoolPredFailure(tag) ==
    CASE tag = 0 -> V("StakePoolNotRegisteredOnKeyPOOL", <<TExt>>)
      [] tag = 1 -> V("StakePoolRetirementWrongEpochPOOL",
                      <<T("EpochNo"), T("EpochNo"), T("EpochNo")>>)
      [] tag = 3 -> V("StakePoolCostTooLowPOOL", <<TExt>>)
      [] tag = 4 -> V("WrongNetworkPOOL", <<TEnum("Network"), TEnum("Network"), TExt>>)
      [] tag = 5 -> V("PoolMedataHashTooBig", <<TExt, TExt>>)
      [] OTHER -> Unknown("unknown error tag while decoding ShelleyPoolPredFailure")

ConwayUtxosPredFailure(tag) ==
    CASE tag = 0 -> V("ValidationTagMismatch", <<T("Bool"), TEnum("TagMismatchDescription")>>)
      [] tag = 1 -> V("CollectErrors", <<T("EmptyArray")>>)
      [] OTHER -> Unknown("unknown error tag while decoding ConwayUtxosPredFailure")

ConwayUtxoWPredFailure(tag) ==
    CASE tag = 0 -> V("UtxoFailure", <<TEnum("ConwayUtxoPredFailure")>>)
      [] tag = 1 -> V("InvalidWitnessesUTXOW", <<TExt>>)
      [] tag = 2 -> V("MissingVKeyWitnessesUTXOW", <<TExt>>)
      [] tag = 3 -> V("MissingScriptWitnessesUTXOW", <<TExt>>)
      [] tag = 4 -> V("ScriptWitnessNotValidatingUTXOW", <<TExt>>)
      [] tag = 5 -> V("MissingTxBodyMetadataHash", <<T("Bytes")>>)
      [] tag = 6 -> V("MissingTxMetadata", <<T("Bytes")>>)
      [] tag = 7 -> V("ConflictingMetadataHash", <<T("Bytes"), T("Bytes")>>)
      [] tag = 8 -> V("InvalidMetadata", <<>>)
      [] tag = 9 -> V("ExtraneousScriptWitnessesUTXOW", <<TSet258(TExt)>>)
      [] tag = 10 -> V("MissingRedeemers", <<TExt>>)
      [] tag = 11 -> V("MissingRequiredDatums", <<TVec(TExt), TVec(TExt)>>)
      [] tag = 12 -> V("NotAllowedSupplementalDatums", <<TVec(TExt), TVec(TExt)>>)
      [] tag = 13 -> V("PPViewHashesDontMatch", <<TExt, TExt>>)
      [] tag = 14 -> V("UnspendableUTxONoDatumHash", <<TVec(TExt)>>)
      [] tag = 15 -> V("ExtraRedeemers", <<TVec(TExt)>>)
      [] tag = 16 -> V("MalformedScriptWitnesses", <<TSet258(TExt)>>)
      [] tag = 17 -> V("MalformedReferenceScripts", <<TSet258(TExt)>>)
      [] OTHER -> Unknown("unknown error tag while decoding ConwayUtxoWPredFailure")

ConwayUtxoPredFailure(tag) ==
    CASE tag = 0 -> V("UtxosFailure", <<TEnum("ConwayUtxoPredFailure")>>)
      [] tag = 1 -> V("BadInputsUTxO", <<TVec(TExt)>>)
      [] tag = 2 -> V("OutsideValidityIntervalUTxO", <<T("ValidityInterval"), T("SlotNo")>>)
      [] tag = 3 -> V("MaxTxSizeUTxO", <<TExt, TExt>>)
      [] tag = 4 -> V("InputSetEmptyUTxO", <<>>)
      [] tag = 5 -> V("FeeTooSmallUTxO", <<TCoin, TCoin>>)
      [] tag = 6 -> V("ValueNotConservedUTxO", <<TExt, TExt>>)
      [] tag = 7 -> V("WrongNetwork", <<TEnum("Network"), TVec(T("Bytes"))>>)
      [] tag = 8 -> V("WrongNetworkWithdrawal", <<TEnum("Network"), TVec(T("Bytes"))>>)
      [] tag = 9 -> V("OutputTooSmallUTxO", <<TVec(TExt)>>)
      [] tag = 10 -> V("OutputBootAddrAttrsTooBig", <<TVec(TExt)>>)
      [] tag = 11 -> V("OutputTooBigUTxO", <<TVec(TExt)>>)
      [] tag = 12 -> V("InsufficientCollateral", <<T("DeltaCoin"), TCoin>>)
      [] tag = 13 -> V("ScriptsNotPaidUTxO", <<T("Utxo")>>)
      [] tag = 14 -> V("ExUnitsTooBigUTxO", <<TExt, TExt>>)
      [] tag = 15 -> V("CollateralContainsNonADA", <<TExt>>)
      [] tag = 16 -> V("WrongNetworkInTxBody", <<TExt, TExt>>)
      [] tag = 17 -> V("OutsideForecast", <<T("SlotNo")>>)
      [] tag = 18 -> V("TooManyCollateralInputs", <<TExt, TExt>>)
      [] tag = 19 -> V("NoCollateralInputs", <<>>)
      [] tag = 20 -> V("IncorrectTotalCollateralField", <<TCoin, TCoin>>)
      [] tag = 21 -> V("BabbageOutputTooSmallUTxO", <<TVec(TExt)>>)
      [] tag = 22 -> V("BabbageNonDisjointRefInputs", <<TVec(TExt)>>)
      [] OTHER -> Unknown("unknown error tag while decoding ConwayUtxoPredFailure")

ConwayGovPredFailure(tag) ==
    CASE tag = 0 -> V("GovActionsDoNotExist", <<TVec(TExt)>>)
      [] tag = 1 -> V("MalformedProposal", <<TExt>>)
      [] tag = 2 -> V("ProposalProcedureNetworkIdMismatch",
                      <<T("RewardAccountFielded"), TEnum("Network")>>)
      [] tag = 3 -> V("TreasuryWithdrawalsNetworkIdMismatch",
                      <<TSet258(T("Bytes")), TEnum("Network")>>)
      [] tag = 4 -> V("ProposalDepositIncorrect", <<TExt, TExt>>)
      [] tag = 5 -> V("DisallowedVoters", <<TVec(TExt)>>)
      [] tag = 6 -> V("ConflictingCommitteeUpdate", <<TSet258(TEnum("Credential"))>>)
      [] tag = 7 -> V("ExpirationEpochTooSmall", <<THashMap(TExt, T("EpochNo"))>>)
      [] tag = 8 -> V("InvalidPrevGovActionId", <<TExt>>)
      [] tag = 9 -> V("VotingOnExpiredGovAction", <<TVec(TExt)>>)
      [] tag = 10 -> V("ProposalCantFollow", <<TExt, TExt, TExt>>)
      [] tag = 11 -> V("InvalidPolicyHash", <<TExt, TExt>>)
      [] tag = 12 -> V("DisallowedProposalDuringBootstrap", <<TExt>>)
      [] tag = 13 -> V("DisallowedVotesDuringBootstrap", <<TVec(TExt)>>)
      [] tag = 14 -> V("VotersDoNotExist", <<TVec(TExt)>>)
      [] tag = 15 -> V("ZeroTreasuryWithdrawals", <<TExt>>)
      [] tag = 16 -> V("ProposalReturnAccountDoesNotExist", <<TExt>>)
      [] tag = 17 -> V("TreasuryWithdrawalReturnAccountsDoNotExist", <<TExt>>)
      [] OTHER -> Unknown("unknown era while decoding ConwayGovPredFailure")

ConwayCertsPredFailure(tag) ==
    CASE tag = 0 -> V("WithdrawalsNotInRewardsCERTS",
                      <<THashMap(T("RewardAccountFielded"), TCoin)>>)
      [] tag = 1 -> V("CertFailure", <<TEnum("ConwayCertPredFailure")>>)
      [] OTHER -> Unknown("unknown error tag while decoding ConwayCertsPredFailure")

ConwayPlutusPurpose(tag) ==
    CASE tag = 0 -> V("ConwaySpending", <<TExt>>)
      [] tag = 1 -> V("ConwayMinting", <<TExt>>)
      [] tag = 2 -> V("ConwayCertifying", <<TExt>>)
      [] tag = 3 -> V("ConwayRewarding", <<TExt>>)
      [] tag = 4 -> V("ConwayVoting", <<TExt>>)
      [] tag = 5 -> V("ConwayProposing", <<TExt>>)
      [] OTHER -> Unknown("unknown error tag while decoding ConwayPlutusPurpose")

ConwayCertPredFailure(tag) ==
    CASE tag = 1 -> V("DelegFailure", <<T("String")>>)
      [] tag = 2 -> V("PoolFailure", <<T("String")>>)
      [] tag = 3 -> V("GovCertFailure", <<TEnum("ConwayGovCertPredFailure")>>)
      [] OTHER -> Unknown("unknown error tag while decoding ConwayCertPredFailure")

ConwayGovCertPredFailure(tag) ==
    CASE tag = 0 -> V("ConwayDRepAlreadyRegistered", <<TEnum("Credential")>>)
      [] tag = 1 -> V("ConwayDRepNotRegistered", <<TEnum("Credential")>>)
      [] tag = 2 -> V("ConwayDRepIncorrectDeposit", <<TCoin, TCoin>>)
      [] tag = 3 -> V("ConwayCommitteeHasPreviouslyResigned", <<TEnum("Credential")>>)
      [] tag = 4 -> V("ConwayDRepIncorrectRefund", <<TCoin, TCoin>>)
      [] tag = 5 -> V("ConwayCommitteeIsUnknown", <<TEnum("Credential")>>)
      [] OTHER -> Unknown("unknown error tag while decoding ConwayGovCertPredFailure")

ConwayDelegPredFailure(tag) ==
    CASE tag = 1 -> V("IncorrectDepositDELEG", <<TExt>>)
      [] tag = 2 -> V("StakeKeyRegisteredDELEG", <<TExt>>)
      [] tag = 3 -> V("StakeKeyNotRegisteredDELEG", <<TExt>>)
      [] tag = 4 -> V("StakeKeyHasNonZeroRewardAccountBalanceDELEG", <<TExt>>)
      [] tag = 5 -> V("DelegateeDRepNotRegisteredDELEG", <<TExt>>)
      [] tag = 6 -> V("DelegateeStakePoolNotRegisteredDELEG", <<TExt>>)
      [] OTHER -> Unknown("unknown error code while decoding ConwayDelegPredFailure")

TagMismatchDescription(tag) ==
    CASE tag = 0 -> V("PassedUnexpectedly", <<>>)
      [] tag = 1 -> V("FailedUnexpectedly", <<TExt>>)
      [] OTHER -> Unknown("unknown error tag while decoding TagMismatchDescription")

FailureDescription(tag) ==
    CASE tag = 1 -> V("PlutusFailure", <<TExt, TExt>>)
      [] OTHER -> Unknown("unknown error tag while decoding FailureDescription")

\* Network reads the discriminant with no array header before it.
Network(tag) ==
    CASE tag = 0 -> V("Testnet", <<>>)
      [] tag = 1 -> V("Mainnet", <<>>)
      [] OTHER -> Unknown("unknown network while decoding Network")

Credential(tag) ==
    CASE tag = 0 -> V("KeyHashObj", <<T("KeyHash")>>)
      [] tag = 1 -> V("ScriptHashObj", <<T("KeyHash")>>)
      [] OTHER -> Unknown("unknown tag while decoding Credential")

ShelleyBasedEra(tag) ==
    CASE tag = 1 -> V("ShelleyBasedEraShelley", <<>>)
      [] tag = 2 -> V("ShelleyBasedEraAllegra", <<>>)
      [] tag = 3 -> V("ShelleyBasedEraMary", <<>>)
      [] tag = 4 -> V("ShelleyBasedEraAlonzo", <<>>)
      [] tag = 5 -> V("ShelleyBasedEraBabbage", <<>>)
      [] tag = 6 -> V("ShelleyBasedEraConway", <<>>)
      [] OTHER -> Unknown("unknown era while decoding ShelleyBasedEra")

PlutusPurpose(tag) ==
    CASE tag = 0 -> V("Spending", <<TExt>>)
      [] tag = 1 -> V("Minting", <<TExt>>)
      [] tag = 2 -> V("Certifying", <<TExt>>)
      [] tag = 3 -> V("Rewarding", <<TExt>>)
      [] tag = 4 -> V("Voting", <<TExt>>)
      [] tag = 5 -> V("Proposing", <<TExt>>)
      [] OTHER -> Unknown("unknown purpose while decoding PlutusPurpose")

EraScript(tag) ==
    CASE tag = 0 -> V("Native", <<T("Timelock")>>)
      [] tag = 1 -> V("PlutusV1", <<TExt>>)
      [] tag = 2 -> V("PlutusV2", <<TExt>>)
      [] tag = 3 -> V("PlutusV3", <<TExt>>)
      [] OTHER -> Unknown("unknown index while decoding EraScript")

TimelockRaw(tag) ==
    CASE tag = 0 -> V("Signature", <<TExt>>)
      [] tag = 1 -> V("AllOf", <<TVec(T("Timelock"))>>)
      [] tag = 2 -> V("AnyOf", <<TVec(T("Timelock"))>>)
      [] tag = 3 -> V("MOfN", <<TExt, TVec(T("Timelock"))>>)
      [] tag = 4 -> V("TimeStart", <<T("SlotNo")>>)
      [] tag = 5 -> V("TimeExpire", <<T("SlotNo")>>)
      [] OTHER -> Unknown("unknown index while decoding Timelock")

\* Every discriminant other than 0 and 1 is NoDatum.
DatumEnum(tag) ==
    CASE tag = 0 -> V("DatumHash", <<TExt>>)
      [] tag = 1 -> V("Datum", <<TExt>>)
      [] OTHER -> V("NoDatum", <<>>)

\* The enum decoding contexts of codec.rs.
EnumContexts ==
    {"ApplyConwayTxPredError", "ConwayUtxoWPredFailure", "ConwayUtxoPredFailure",
     "ConwayGovPredFailure", "ConwayCertsPredFailure", "ConwayCertPredFailure",
     "ConwayGovCertPredFailure", "ConwayDelegPredFailure", "ShelleyPoolPredFailure",
     "ConwayUtxosPredFailure", "TagMismatchDescription", "FailureDescription",
     "Credential", "ShelleyBasedEra", "PlutusPurpose", "ConwayPlutusPurpose",
     "EraScript", "TimelockRaw", "DatumEnum", "Network"}

\* The match a context dispatches its discriminant with.
Variant(ctx, tag) ==
    CASE ctx = "ApplyConwayTxPredError" -> ApplyConwayTxPredError(tag)
      [] ctx = "ConwayUtxoWPredFailure" -> ConwayUtxoWPredFailure(tag)
      [] ctx = "ConwayUtxoPredFailure" -> ConwayUtxoPredFailure(tag)
      [] ctx = "ConwayGovPredFailure" -> ConwayGovPredFailure(tag)
      [] ctx = "ConwayCertsPredFailure" -> ConwayCertsPredFailure(tag)
      [] ctx = "ConwayCertPredFailure" -> ConwayCertPredFailure(tag)
      [] ctx = "ConwayGovCertPredFailure" -> ConwayGovCertPredFailure(tag)
      [] ctx = "ConwayDelegPredFailure" -> ConwayDelegPredFailure(tag)
      [] ctx = "ShelleyPoolPredFailure" -> ShelleyPoolPredFailure(tag)
      [] ctx = "ConwayUtxosPredFailure" -> ConwayUtxosPredFailure(tag)
      [] ctx = "TagMismatchDescription" -> TagMismatchDescription(tag)
      [] ctx = "FailureDescription" -> FailureDescription(tag)
      [] ctx = "Credential" -> Credential(tag)
      [] ctx = "ShelleyBasedEra" -> ShelleyBasedEra(tag)
      [] ctx = "PlutusPurpose" -> PlutusPurpose(tag)
      [] ctx = "ConwayPlutusPurpose" -> ConwayPlutusPurpose(tag)
      [] ctx = "EraScript" -> EraScript(tag)
      [] ctx = "TimelockRaw" -> TimelockRaw(tag)
      [] ctx = "DatumEnum" -> DatumEnum(tag)
      [] ctx = "Network" -> Network(tag)

(***************************************************************************)
(* Library calls the decoders make on a decoded byte string.               *)
(***************************************************************************)
\* hex::encode: two nibbles per byte, the high one first.
RECURSIVE HexEncode(_)
HexEncode(bytes) ==
    IF bytes = <<>> THEN <<>>
    ELSE <<Head(bytes) \div 16, Head(bytes) % 16>> \o HexEncode(Tail(bytes))

\* hex::decode of an even number of nibbles.
RECURSIVE HexDecode(_)
HexDecode(hex) ==
    IF Len(hex) < 2 THEN <<>>
    ELSE <<hex[1] * 16 + hex[2]>> \o HexDecode(SubSeq(hex, 3, Len(hex)))

\* RewardAccountFielded::new(hex): the network from the leading "e0", the
\* credential from hex[2..], which panics on a string shorter than 2.
RewardAccountFieldedNew(hex) ==
    LET ra_network == IF Len(hex) >= 2 /\ hex[1] = 14 /\ hex[2] = 0
                      THEN "Testnet" ELSE "Mainnet"
    IN  IF Len(hex) < 2 THEN Panic("byte index 2 is out of bounds")
        ELSE [st |-> "ok", pos |-> 0, msg |-> "", bad |-> -1,
              val |-> [ra_network |-> ra_network,
                       ra_credential |->
                           [c |-> "KeyHashObj",
                            f |-> <<HexDecode(SubSeq(hex, 3, Len(hex)))>>]]]

\* pallas Address::from_bytes on the header kinds the model's inputs use:
\* enterprise (6, 7) and stake (14, 15) addresses are a header and a 28 byte
\* hash; no header, or a header kind 9..13, is an error.
AddressFromBytes(bytes) ==
    IF bytes = <<>> THEN "MissingHeader"
    ELSE LET kind == bytes[1] \div 16
         IN  CASE kind \in {6, 7, 14, 15} ->
                      IF Len(bytes) = 29 THEN "Ok" ELSE "InvalidHashSize"
               [] kind \in 9..13 -> "InvalidHeader"
               [] OTHER -> "Ext"

\* Address::from_bytes(..).unwrap()
UnwrapAddress(r) ==
    Then(r, LAMBDA a :
    CASE AddressFromBytes(a.val) = "Ok" -> a
      [] AddressFromBytes(a.val) = "Ext" -> Ext
      [] OTHER -> Panic("called Result::unwrap() on an Err value"))

\* d.bool()
Bool(b, p) ==
    IF p >= Len(b) THEN EndOfInput
    ELSE IF b[p + 1] \notin {244, 245} THEN Err("unexpected type: expected bool", b[p + 1])
    ELSE Ok(p + 1, b[p + 1] = 245)

\* pallas Hash<28>: a byte string of exactly 28 bytes.
Hash28(b, p) ==
    Then(Bytes(b, p), LAMBDA r :
    IF Len(r.val) # 28 THEN Err("invalid hash size", Len(r.val)) ELSE r)

\* pallas StakeCredential: [0, key hash] or [1, script hash].
StakeCredential(b, p) ==
    Then(Array(b, p), LAMBDA a :
    Then(U16(b, a.pos), LAMBDA e :
    IF e.val \notin {0, 1} THEN Err("invalid variant id for StakeCredential", e.val)
    ELSE Then(Hash28(b, e.pos), LAMBDA h :
         Ok(h.pos, [c |-> IF e.val = 0 THEN "AddrKeyhash" ELSE "ScriptHash",
                    f |-> <<h.val>>]))))

\* pallas conway::Certificate on the variants the model's inputs use:
\* 0 StakeRegistration, 1 StakeDeregistration, 4 PoolRetirement, 7 Reg, 8 UnReg.
Certificate(b, p) ==
    Then(Array(b, p), LAMBDA a :
    Then(U16(b, a.pos), LAMBDA e :
    CASE e.val \in {0, 1} ->
             Then(StakeCredential(b, e.pos), LAMBDA cred :
             Ok(cred.pos, [c |-> IF e.val = 0 THEN "StakeRegistration"
                                 ELSE "StakeDeregistration",
                           f |-> <<cred.val>>]))
      [] e.val = 4 ->
             Then(Hash28(b, e.pos), LAMBDA hash :
             Then(U64(b, hash.pos), LAMBDA epoch :
             Ok(epoch.pos, [c |-> "PoolRetirement", f |-> <<hash.val, epoch.val>>])))
      [] e.val \in {7, 8} ->
             Then(StakeCredential(b, e.pos), LAMBDA cred :
             Then(U64(b, cred.pos), LAMBDA coin :
             Ok(coin.pos, [c |-> IF e.val = 7 THEN "Reg" ELSE "UnReg",
                           f |-> <<cred.val, coin.val>>])))
      [] e.val > 18 \/ e.val \in {5, 6} ->
             Err("unknown variant id for certificate", e.val)
      [] OTHER -> Ext))

\* The match of impl Decode for ConwayTxCert on a decoded Certificate.
ConwayTxCert(cert) ==
    CASE cert.c = "StakeRegistration" ->
             [c |-> "ConwayTxCertDeleg",
              f |-> <<[c |-> "ConwayRegCert", f |-> <<cert.f[1], <<>> >>]>>]
      [] cert.c = "StakeDeregistration" ->
             [c |-> "ConwayTxCertDeleg",
              f |-> <<[c |-> "ConwayUnRegCert", f |-> <<cert.f[1], <<>> >>]>>]
      [] cert.c = "PoolRetirement" ->
             [c |-> "ConwayTxCertPool", f |-> <<[c |-> "PoolCert", f |-> <<"todo2">>]>>]
      [] cert.c = "Reg" ->
             [c |-> "ConwayTxCertPool", f |-> <<[c |-> "PoolCert", f |-> <<"todo3">>]>>]
      [] cert.c = "UnReg" ->
             [c |-> "ConwayTxCertPool", f |-> <<[c |-> "PoolCert", f |-> <<"todo4">>]>>]

\* HashMap::insert: the value of an equal key is replaced where it stands.
Insert(entries, key, value) ==
    IF \E i \in 1..Len(entries) : entries[i][1] = key
    THEN [i \in 1..Len(entries) |->
              IF entries[i][1] = key THEN <<key, value>> ELSE entries[i]]
    ELSE Append(entries, <<key, value>>)

\* As Build, but the fields are handed to the constructor last to first.
BuildReversed(ctx, name, fields) ==
    [c |-> name, f |-> [i \in 1..Len(fields) |-> fields[Len(fields) + 1 - i]]]

\* What a variant constructor is built from once its fields are read.
Build(ctx, name, fields) ==
    CASE ctx = "ShelleyPoolPredFailure" /\ name = "StakePoolRetirementWrongEpochPOOL" ->
             [c |-> name, f |-> << <<fields[2], fields[1]>>, <<fields[2], fields[3]>> >>]
      [] ctx = "ShelleyPoolPredFailure" /\ name = "WrongNetworkPOOL" ->
             [c |-> name, f |-> << <<fields[2], fields[1]>>, fields[3] >>]
      [] OTHER -> [c |-> name, f |-> fields]

(***************************************************************************)
(* d.decode::<T>() for every type T of the error tree.                     *)
(***************************************************************************)
RECURSIVE decode(_, _, _)
RECURSIVE decodeFields(_, _, _, _)
RECURSIVE decodeItems(_, _, _, _, _)
RECURSIVE decodeItemsDedup(_, _, _, _, _)
RECURSIVE decodeEntries(_, _, _, _, _, _)

\* The d.decode()? calls of one match arm, left to right.
decodeFields(ts, b, p, acc) ==
    IF ts = <<>> THEN Ok(p, acc)
    ELSE Then(decode(Head(ts), b, p), LAMBDA r :
         decodeFields(Tail(ts), b, r.pos, Append(acc, r.val)))

\* As decodeItems, but an item equal to one already collected is dropped.
decodeItemsDedup(t, b, p, n, acc) ==
    IF n = 0 THEN Ok(p, acc)
    ELSE IF n = -1 /\ p >= Len(b) THEN EndOfInput
    ELSE IF n = -1 /\ b[p + 1] = 255 THEN Ok(p + 1, acc)
    ELSE Then(decode(t, b, p), LAMBDA r :
         decodeItemsDedup(t, b, r.pos, IF n = -1 THEN -1 ELSE n - 1,
                          IF \E i \in 1..Len(acc) : acc[i] = r.val
                          THEN acc ELSE Append(acc, r.val)))

\* array_iter().collect(): n items, or up to the break when n = -1; the first
\* failing item ends the collection with its error.
decodeItems(t, b, p, n, acc) ==
    IF n = 0 THEN Ok(p, acc)
    ELSE IF n = -1 /\ p >= Len(b) THEN EndOfInput
    ELSE IF n = -1 /\ b[p + 1] = 255 THEN Ok(p + 1, acc)
    ELSE Then(decode(t, b, p), LAMBDA r :
         decodeItems(t, b, r.pos, IF n = -1 THEN -1 ELSE n - 1, Append(acc, r.val)))

\* map_iter().collect::<HashMap>()
decodeEntries(kt, vt, b, p, n, acc) ==
    IF n = 0 THEN Ok(p, acc)
    ELSE IF n = -1 /\ p >= Len(b) THEN EndOfInput
    ELSE IF n = -1 /\ b[p + 1] = 255 THEN Ok(p + 1, acc)
    ELSE Then(decode(kt, b, p), LAMBDA k :
         Then(decode(vt, b, k.pos), LAMBDA v :
         decodeEntries(kt, vt, b, v.pos, IF n = -1 THEN -1 ELSE n - 1,
                       Insert(acc, k.val, v.val))))

\* The match on the discriminant e of an enum context, and the fields of the arm.
decodeVariant(ctx, v, b, e) ==
    IF ~v.known THEN Err(v.msg, e.val)
    ELSE Then(decodeFields(v.fields, b, e.pos, <<>>), LAMBDA fs :
         Ok(fs.pos, Build(ctx, v.name, fs.val)))

\* An enum context: the array header (its length dropped), the discriminant,
\* the match.
decodeEnum(ctx, b, p) ==
    Then(IF ctx = "Network" THEN Ok(p, 0) ELSE Array(b, p), LAMBDA a :
    Then(U16(b, a.pos), LAMBDA e :
    decodeVariant(ctx, Variant(ctx, e.val), b, e)))

\* One bound of a ValidityInterval: its own array, a slot when the length is 1.
decodeBound(b, p) ==
    Then(Array(b, p), LAMBDA a :
    IF a.val = 1
    THEN Then(decode(T("SlotNo"), b, a.pos), LAMBDA s : Ok(s.pos, <<s.val>>))
    ELSE Ok(a.pos, <<>>))

decodeValidityInterval(b, p) ==
    Then(Array(b, p), LAMBDA a :
    Then(decodeBound(b, a.pos), LAMBDA s1 :
    Then(decodeBound(b, s1.pos), LAMBDA s2 :
    Ok(s2.pos, [invalid_before |-> s1.val, invalid_hereafter |-> s2.val]))))

\* As decodeStrictMaybe, but a value is read from a length above 1 only.
decodeStrictMaybeAboveOne(t, b, p) ==
    Then(Array(b, p), LAMBDA arr :
    IF arr.val > 1
    THEN Then(decode(t, b, arr.pos), LAMBDA v : Ok(v.pos, <<v.val>>))
    ELSE Ok(arr.pos, <<>>))

decodeStrictMaybe(t, b, p) ==
    Then(Array(b, p), LAMBDA arr :
    IF arr.val > 0
    THEN Then(decode(t, b, arr.pos), LAMBDA v : Ok(v.pos, <<v.val>>))
    ELSE Ok(arr.pos, <<>>))

decodeCustomSet258(t, b, p) ==
    Then(Tag(b, p), LAMBDA tag :
    IF tag.val # 258 THEN Err("unexpected tag while decoding CustomSet258", tag.val)
    ELSE decode(TVec(t), b, tag.pos))

decodeCborBytes(t, b, p) ==
    Then(Tag(b, p), LAMBDA tag :
    IF tag.val # 24 THEN Err("unexpected tag while decoding CustomSet258", tag.val)
    ELSE decode(t, b, tag.pos))

\* AsIx wraps an unsigned integer and AsItem a byte string.
decodePurposeAs(b, p) ==
    Then(Datatype(b, p), LAMBDA tp :
    CASE tp.val = "U8" ->
             Then(U64(b, tp.pos), LAMBDA ix : Ok(ix.pos, [c |-> "Ix", f |-> <<ix.val>>]))
      [] tp.val = "Bytes" ->
             Then(Bytes(b, tp.pos), LAMBDA item :
             Ok(item.pos, [c |-> "Item", f |-> <<item.val>>]))
      [] OTHER -> Err("unknown datatype while decoding PurposeAs", b[p + 1]))

decodeBabbageTxOut(b, p) ==
    Then(Map(b, p), LAMBDA len :
    CASE len.val \in {2, 3, -1} -> Ok(len.pos, [c |-> "NotImplemented", f |-> <<>>])
      [] len.val = 4 ->
             Then(U8(b, len.pos), LAMBDA k0 :
             Then(UnwrapAddress(Bytes(b, k0.pos)), LAMBDA addr : Ext))
      [] OTHER -> Err("unexpected number of fields while decoding BabbageTxOut", len.val))

decodeTimelock(b, p) ==
    Then(decodeEnum("TimelockRaw", b, p), LAMBDA raw :
    Ok(raw.pos, [raw |-> raw.val, memo |-> SubSeq(b, p + 1, raw.pos)]))

decodeTxValidationError(b, p) ==
    Then(Array(b, p), LAMBDA a :
    Then(decode(TEnum("ShelleyBasedEra"), b, a.pos), LAMBDA era :
    Then(decode(T("ApplyTxError"), b, era.pos), LAMBDA error :
    Ok(error.pos, [kind |-> "ShelleyTxValidationError",
                   error |-> error.val, era |-> era.val]))))

\* The element type of a collection type.
ItemType(t) ==
    CASE t.k = "Vec" -> t.of[1]
      [] t.k = "ApplyTxError" -> TEnum("ApplyConwayTxPredError")
      [] OTHER -> TExt

decode(t, b, p) ==
    CASE t.k = "Enum" -> decodeEnum(t.n, b, p)
      [] t.k \in {"U64", "DisplayCoin", "DeltaCoin", "EpochNo", "SlotNo"} -> U64(b, p)
      [] t.k = "I8" -> I8(b, p)
      [] t.k = "Bool" -> Bool(b, p)
      [] t.k = "String" -> Str(b, p)
      [] t.k \in {"Bytes", "KeyHash"} -> Bytes(b, p)
      [] t.k \in {"Vec", "ApplyTxError", "Utxo"} ->
             Then(Array(b, p), LAMBDA a : decodeItems(ItemType(t), b, a.pos, a.val, <<>>))
      [] t.k = "HashMap" ->
             Then(Map(b, p), LAMBDA m :
             decodeEntries(t.of[1], t.of[2], b, m.pos, m.val, <<>>))
      [] t.k = "CustomSet258" -> decodeCustomSet258(t.of[1], b, p)
      [] t.k = "CborBytes" -> decodeCborBytes(t.of[1], b, p)
      [] t.k = "StrictMaybe" -> decodeStrictMaybe(t.of[1], b, p)
      [] t.k = "ValidityInterval" -> decodeValidityInterval(b, p)
      [] t.k = "RewardAccountFielded" ->
             Then(Bytes(b, p), LAMBDA r :
             Then(RewardAccountFieldedNew(HexEncode(r.val)), LAMBDA ra : Ok(r.pos, ra.val)))
      [] t.k = "DisplayAddress" -> UnwrapAddress(Bytes(b, p))
      [] t.k = "PurposeAs" -> decodePurposeAs(b, p)
      [] t.k = "BabbageTxOut" -> decodeBabbageTxOut(b, p)
      [] t.k = "ConwayTxCert" ->
             Then(Certificate(b, p), LAMBDA cert : Ok(cert.pos, ConwayTxCert(cert.val)))
      [] t.k = "Timelock" -> decodeTimelock(b, p)
      [] t.k = "EmptyArray" -> Ok(p, <<>>)
      [] t.k = "TxValidationError" -> decodeTxValidationError(b, p)
      [] OTHER -> IF p >= Len(b) THEN EndOfInput ELSE Ext

(***************************************************************************)
(* Rendering.  A rendering is a record [st, s]: st = "ok" and the text s,  *)
(* st = "panic" (todo!, unwrap), or st = "ext" for a rule outside src/.    *)
(***************************************************************************)
R(s) == [st |-> "ok", s |-> s]

RPanic(m) == [st |-> "panic", s |-> m]

RExt == [st |-> "ext", s |-> ""]

\* format!: the arguments are rendered left to right, the first panic ends it.
RECURSIVE Format(_)
Format(parts) ==
    IF parts = <<>> THEN R("")
    ELSE LET h == Head(parts)
             t == Format(Tail(parts))
         IN  IF h.st # "ok" THEN h
             ELSE IF t.st # "ok" THEN t
             ELSE R(h.s \o t.s)

\* collect::<Vec<String>>().join(sep)
RECURSIVE Join(_, _)
Join(parts, sep) ==
    IF parts = <<>> THEN R("")
    ELSE IF Len(parts) = 1 THEN Head(parts)
    ELSE Format(<<Head(parts), R(sep), Join(Tail(parts), sep)>>)

HexDigit == <<"0", "1", "2", "3", "4", "5", "6", "7",
              "8", "9", "a", "b", "c", "d", "e", "f">>

\* The text of hex::encode(bytes), and of {} on pallas Bytes.
RECURSIVE HexStr(_)
HexStr(bytes) ==
    IF bytes = <<>> THEN ""
    ELSE HexDigit[(Head(bytes) \div 16) + 1] \o HexDigit[(Head(bytes) % 16) + 1]
         \o HexStr(Tail(bytes))

\* The printable ASCII characters 32..126 (the grave accent, 96, cannot be
\* written in a string of this language: the slot holds "" and is never used).
Ascii ==
    <<" ", "!", "\"", "#", "$", "%", "&", "'", "(", ")", "*", "+", ",", "-", ".", "/",
      "0", "1", "2", "3", "4", "5", "6", "7", "8", "9", ":", ";", "<", "=", ">", "?",
      "@", "A", "B", "C", "D", "E", "F", "G", "H", "I", "J", "K", "L", "M", "N", "O",
      "P", "Q", "R", "S", "T", "U", "V", "W", "X", "Y", "Z", "[", "\\", "]", "^", "_",
      "", "a", "b", "c", "d", "e", "f", "g", "h", "i", "j", "k", "l", "m", "n", "o",
      "p", "q", "r", "s", "t", "u", "v", "w", "x", "y", "z", "{", "|", "}", "~">>

\* s.chars(): the code points of UTF-8 text made of 1 and 2 byte sequences.
RECURSIVE Chars(_)
Chars(bytes) ==
    IF bytes = <<>> THEN <<>>
    ELSE IF Head(bytes) < 128 THEN <<Head(bytes)>> \o Chars(Tail(bytes))
    ELSE <<(bytes[1] - 192) * 64 + (bytes[2] - 128)>> \o Chars(SubSeq(bytes, 3, Len(bytes)))

\* The closure of the ConwayMempoolFailure arm: an ASCII character as it is, any
\* other as its code in quotes.
MempoolChar(c) ==
    IF c >= 32 /\ c <= 126 /\ c # 96 THEN R(Ascii[c - 31])
    ELSE IF c < 128 THEN RExt
    ELSE R("\"\\" \o ToString(c) \o "\"")

(***************************************************************************)
(* haskell_show_string: a string is the sequence of its code points, the   *)
(* result is text.                                                         *)
(***************************************************************************)
\* ('0'..='7').contains(&c)
is_oct_digit(c) == c >= 48 /\ c <= 55

\* A digit test that stops at 7.
DigitBelowEight(c) == c >= 48 /\ c <= 55

\* char::is_ascii_digit
is_ascii_digit(c) == c >= 48 /\ c <= 57

\* The arms of the outer match that push a fixed escape; "" where none does.
LetterEscape(c) ==
    CASE c = 92 -> "\\\\"
      [] c = 34 -> "\\\""
      [] c = 7 -> "\\a"
      [] c = 8 -> "\\b"
      [] c = 12 -> "\\f"
      [] c = 10 -> "\\n"
      [] c = 13 -> "\\r"
      [] c = 9 -> "\\t"
      [] c = 11 -> "\\v"
      [] OTHER -> ""

\* An abbreviation table with no entry.
AbbreviationNone(c) == ""

\* let abbreviation = match c { .. }
Abbreviation(c) ==
    CASE c = 0 -> "NUL"
      [] c = 1 -> "SOH"
      [] c = 2 -> "STX"
      [] c = 3 -> "ETX"
      [] c = 4 -> "EOT"
      [] c = 5 -> "ENQ"
      [] c = 6 -> "ACK"
      [] c = 14 -> "SO"
      [] c = 15 -> "SI"
      [] c = 16 -> "DLE"
      [] c = 17 -> "DC1"
      [] c = 18 -> "DC2"
      [] c = 19 -> "DC3"
      [] c = 20 -> "DC4"
      [] c = 21 -> "NAK"
      [] c = 22 -> "SYN"
      [] c = 23 -> "ETB"
      [] c = 24 -> "CAN"
      [] c = 25 -> "EM"
      [] c = 26 -> "SUB"
      [] c = 27 -> "ESC"
      [] c = 28 -> "FS"
      [] c = 29 -> "GS"
      [] c = 30 -> "RS"
      [] c = 31 -> "US"
      [] c = 127 -> "DEL"
      [] OTHER -> ""

\* format!("{:o}", code)
RECURSIVE Octal(_)
Octal(code) ==
    IF code < 8 THEN ToString(code)
    ELSE Octal(code \div 8) \o ToString(code % 8)

\* As Peek, had no marker been pushed after any escape.
PeekNothing(c, rest) == ""

\* if let Some(&next_c) = chars.peek() { if <test> { push_str("\\&") } }
\* where the test is that of the branch the character took.
Peek(c, rest) ==
    IF rest = <<>> THEN ""
    ELSE IF Abbreviation(c) # ""
         THEN (IF Abbreviation(c) = "SO" /\ Head(rest) = 72 THEN "\\&" ELSE "")
    ELSE IF c <= 127
         THEN (IF is_oct_digit(Head(rest)) THEN "\\&" ELSE "")
    ELSE IF is_ascii_digit(Head(rest)) THEN "\\&" ELSE ""

\* One turn of the while loop: what is pushed for c, rest being what the
\* iterator still holds.
ShowChar(c, rest) ==
    IF LetterEscape(c) # "" THEN LetterEscape(c)
    ELSE IF c >= 32 /\ c <= 126 THEN Ascii[c - 31]
    ELSE IF Abbreviation(c) # "" THEN "\\" \o Abbreviation(c) \o Peek(c, rest)
    ELSE IF c <= 127 THEN "\\" \o Octal(c % 256) \o Peek(c, rest)
    ELSE "\\" \o ToString(c) \o Peek(c, rest)

\* while let Some(c) = chars.next() { .. }
RECURSIVE ShowChars(_)
ShowChars(s) ==
    IF s = <<>> THEN "" ELSE ShowChar(Head(s), Tail(s)) \o ShowChars(Tail(s))

haskell_show_string(s) == "\"" \o ShowChars(s) \o "\""

as_key_hash(bytes) == "KeyHash {unKeyHash = \"" \o HexStr(bytes) \o "\"}"

as_script_hash(bytes) == "ScriptHash \"" \o HexStr(bytes) \o "\""

as_key_hash_obj(bytes) == "KeyHashObj (" \o as_key_hash(bytes) \o ")"

as_script_hash_obj(bytes) == "ScriptHashObj (" \o as_script_hash(bytes) \o ")"

\* is_primitive::<T>()
is_primitive(t) == t.k \in {"Bool", "U64", "I8", "String"}

\* Display and HaskellDisplay of Credential give the same text.
CredentialStr(v) ==
    IF v.c = "ScriptHashObj" THEN as_script_hash_obj(v.f[1]) ELSE as_key_hash_obj(v.f[1])

\* HaskellDisplay for pallas Address: a Shelley enterprise address, or the hex
\* of a stake address.
AddressStr(bytes) ==
    LET kind == bytes[1] \div 16
        net == bytes[1] % 16
        network == CASE net = 1 -> "Mainnet" [] net = 0 -> "Testnet"
                     [] OTHER -> "Other " \o ToString(net)
        payment == IF kind = 6 THEN as_key_hash_obj(Tail(bytes))
                   ELSE as_script_hash_obj(Tail(bytes))
    IN  IF kind \in {14, 15} THEN HexStr(bytes)
        ELSE "Addr " \o network \o " (" \o payment \o ") (StakeRefBase ())"

RECURSIVE to_haskell_str(_, _)
RECURSIVE to_haskell_str_p(_, _)
RECURSIVE fmt(_, _)
RECURSIVE RenderAll(_, _, _)

\* As RenderAll, but the elements are taken last to first.
RenderAllReversed(how, t, vs) ==
    [i \in 1..Len(vs) |->
         IF how = "fmt" THEN fmt(t, vs[Len(vs) + 1 - i])
         ELSE to_haskell_str(t, vs[Len(vs) + 1 - i])]

\* One rendering per element, in the order of the sequence; how == "fmt" for
\* Display and "show" for HaskellDisplay.
RenderAll(how, t, vs) ==
    [i \in 1..Len(vs) |-> IF how = "fmt" THEN fmt(t, vs[i]) ELSE to_haskell_str(t, vs[i])]

\* HashMap::iter(): the entries in an order the hasher decides.
Iter(entries, seed) ==
    IF seed = 0 THEN entries
    ELSE [i \in 1..Len(entries) |-> entries[Len(entries) + 1 - i]]

\* The default to_haskell_str_p of the trait, and its overrides.
to_haskell_str_p(t, v) ==
    LET r == to_haskell_str(t, v)
    IN  IF t.k \in {"StrictMaybe", "Option"} /\ r.st = "ok" /\ r.s = "SNothing" THEN r
        ELSE Format(<<R("("), r, R(")")>>)

\* HaskellDisplay::to_haskell_str
to_haskell_str(t, v) ==
    CASE t.k = "U64" -> R(ToString(v))
      [] t.k = "I8" -> IF v >= 0 THEN R(ToString(v)) ELSE R("(" \o ToString(v) \o ")")
      [] t.k = "DisplayCoin" -> R("Coin " \o ToString(v))
      [] t.k = "DeltaCoin" -> R("DeltaCoin " \o ToString(v))
      [] t.k = "EpochNo" -> R("EpochNo " \o ToString(v))
      [] t.k = "SlotNo" -> R("SlotNo " \o ToString(v))
      [] t.k = "Bytes" -> R("\"" \o HexStr(v) \o "\"")
      [] t.k = "String" -> R(haskell_show_string(Chars(v)))
      [] t.k = "KeyHash" -> R(as_key_hash(v))
      [] t.k = "Vec" ->
             IF v = <<>> THEN R("fromList []")
             ELSE Format(<<to_haskell_str(t.of[1], Head(v)), R(" :| ["),
                           Join(RenderAll("show", t.of[1], Tail(v)), " ,"), R("]")>>)
      [] t.k = "CustomSet258" ->
             Format(<<R("fromList ["), Join(RenderAll("show", t.of[1], v), ","), R("]")>>)
      [] t.k \in {"StrictMaybe", "Option"} ->
             IF v = <<>> THEN R("SNothing")
             ELSE IF is_primitive(t.of[1])
                  THEN Format(<<R("SJust "), to_haskell_str(t.of[1], v[1])>>)
             ELSE Format(<<R("SJust ("), to_haskell_str(t.of[1], v[1]), R(")")>>)
      [] t.k = "ValidityInterval" ->
             Format(<<R("(ValidityInterval {invalidBefore = "),
                      to_haskell_str(TOf("Option", <<T("SlotNo")>>), v.invalid_before),
                      R(", invalidHereafter = "),
                      to_haskell_str(TOf("Option", <<T("SlotNo")>>), v.invalid_hereafter),
                      R("})")>>)
      [] t.k = "HashMap" ->
             Format(<<R("fromList ["),
                      Join([i \in 1..Len(v) |->
                                Format(<<R("("),
                                         to_haskell_str(t.of[1], Iter(v, hashSeed)[i][1]),
                                         R(","),
                                         to_haskell_str(t.of[2], Iter(v, hashSeed)[i][2]),
                                         R(")")>>)],
                           ", "),
                      R("]")>>)
      [] t.k = "RewardAccountFielded" ->
             R("RewardAccount {raNetwork = " \o v.ra_network \o ", raCredential = "
               \o CredentialStr(v.ra_credential) \o "}")
      [] t.k = "DisplayAddress" -> R(AddressStr(v))
      [] t.k = "StakeCredential" ->
             R(IF v.c = "AddrKeyhash" THEN as_key_hash_obj(v.f[1])
               ELSE as_script_hash_obj(v.f[1]))
      [] t.k = "PurposeAs" ->
             IF v.c = "Ix" THEN R("AsIx {unAsIx = " \o ToString(v.f[1]) \o "}") ELSE RExt
      [] t.k = "BabbageTxOut" ->
             IF v.c = "NotImplemented" THEN R("HaskellDisplay not implemented yet") ELSE RExt
      [] t.k = "ConwayTxCert" ->
             IF v.c = "ConwayTxCertDeleg"
             THEN Format(<<R("ConwayTxCertDeleg "),
                           to_haskell_str_p(T("ConwayDelegCert"), v.f[1])>>)
             ELSE RPanic("not yet implemented")
      [] t.k = "ConwayDelegCert" ->
             Format(<<R(v.c \o " "), to_haskell_str_p(T("StakeCredential"), v.f[1]), R(" "),
                      to_haskell_str(TOf("Option", <<TCoin>>), v.f[2])>>)
      [] t.k = "Timelock" ->
             Format(<<R("TimelockConstr "), to_haskell_str(TEnum("TimelockRaw"), v.raw),
                      R(" (blake2b_256: SafeHash \"" \o HexStr(v.memo) \o "\")")>>)
      [] t.k = "Enum" /\ t.n = "Credential" -> R(CredentialStr(v))
      [] t.k = "Enum" /\ t.n = "Network" -> R(v.c)
      [] t.k = "Enum" /\ t.n = "DatumEnum" ->
             IF v.c = "NoDatum" THEN R("NoDatum") ELSE RExt
      [] t.k = "Enum" /\ t.n = "TagMismatchDescription" ->
             IF v.c = "PassedUnexpectedly" THEN R("PassedUnexpectedly") ELSE RExt
      [] t.k = "Enum" /\ t.n = "ConwayUtxosPredFailure" ->
             IF v.c = "CollectErrors" THEN R("CollectErrors []")
             ELSE Format(<<R("ValidationTagMismatch ("),
                           R(IF v.f[1] THEN "IsValid True" ELSE "IsValid False"), R(") "),
                           to_haskell_str_p(TEnum("TagMismatchDescription"), v.f[2])>>)
      [] t.k = "Enum" /\ t.n = "ShelleyPoolPredFailure"
            /\ v.c = "StakePoolRetirementWrongEpochPOOL" ->
             LET mis(m) == "(Mismatch {mismatchSupplied = EpochNo " \o ToString(m[1])
                           \o ", mismatchExpected = EpochNo " \o ToString(m[2]) \o "})"
             IN  R("StakePoolRetirementWrongEpochPOOL " \o mis(v.f[1]) \o " " \o mis(v.f[2]))
      [] t.k = "Enum" /\ t.n = "TimelockRaw" /\ v.c \in {"TimeStart", "TimeExpire"} ->
             R(v.c \o " (SlotNo " \o ToString(v.f[1]) \o ")")
      [] t.k = "Enum" /\ t.n = "TimelockRaw" /\ v.c \in {"AllOf", "AnyOf"} ->
             Format(<<R(v.c \o " ("), to_haskell_str(TVec(T("Timelock")), v.f[1]), R(")")>>)
      [] t.k = "Enum" /\ t.n = "EraScript" /\ v.c = "Native" ->
             Format(<<R("TimelockScript "), to_haskell_str(T("Timelock"), v.f[1])>>)
      [] OTHER -> RExt

\* AsInMap::as_in_map of StrictMaybe<T>
as_in_map(t, v) ==
    IF v = <<>> THEN R("SNothing")
    ELSE Format(<<R("SJust "), to_haskell_str(t, v[1])>>)

\* display_vec: the Display of each element joined by a space.
display_vec(t, v) ==
    IF v = <<>> THEN R("fromList []") ELSE Join(RenderAll("fmt", t, v), " ")

\* display_hashmap: display_tuple of each entry joined by a space.
display_hashmap(kt, vt, m) ==
    Format(<<R("fromList ["),
             Join([i \in 1..Len(m) |->
                       Format(<<R("("), fmt(kt, Iter(m, hashSeed)[i][1]), R(","),
                                fmt(vt, Iter(m, hashSeed)[i][2]), R(")")>>)],
                  " "),
             R("]")>>)

as_aux_data_hash(bytes) ==
    "AuxiliaryDataHash {unsafeAuxiliaryDataHash = SafeHash \"" \o HexStr(bytes) \o "\"}"

\* fmt::Display::fmt
fmt(t, v) ==
    CASE t.k = "U64" -> R(ToString(v))
      [] t.k = "DisplayCoin" -> R("Coin " \o ToString(v))
      [] t.k = "DeltaCoin" -> R("DeltaCoin " \o ToString(v))
      [] t.k = "Bytes" -> R(HexStr(v))
      [] t.k = "RewardAccountFielded" -> to_haskell_str(t, v)
      [] t.k = "Enum" /\ t.n = "Network" -> R(v.c)
      [] t.k = "Enum" /\ t.n = "Credential" -> R(CredentialStr(v))
      [] t.k = "Enum" /\ t.n = "ApplyConwayTxPredError" ->
            (CASE v.c = "ConwayUtxowFailure" ->
                      Format(<<R("ConwayUtxowFailure ("),
                               fmt(TEnum("ConwayUtxoWPredFailure"), v.f[1]), R(")")>>)
               [] v.c = "ConwayCertsFailure" ->
                      Format(<<R("ConwayCertsFailure ("),
                               fmt(TEnum("ConwayCertsPredFailure"), v.f[1]), R(")")>>)
               [] v.c = "ConwayGovFailure" ->
                      Format(<<R("ConwayGovFailure ("),
                               fmt(TEnum("ConwayGovPredFailure"), v.f[1]), R(")")>>)
               [] v.c = "ConwayWdrlNotDelegatedToDRep" ->
                      Format(<<R("ConwayWdrlNotDelegatedToDRep ("),
                               to_haskell_str(TVec(T("KeyHash")), v.f[1]), R(")")>>)
               [] v.c = "ConwayTreasuryValueMismatch" ->
                      Format(<<R("ConwayTreasuryValueMismatch ("), fmt(TCoin, v.f[1]),
                               R(") ("), fmt(TCoin, v.f[2]), R(")")>>)
               [] v.c = "ConwayTxRefScriptsSizeTooBig" ->
                      Format(<<R("ConwayTxRefScriptsSizeTooBig "),
                               to_haskell_str(T("I8"), v.f[1]), R(" "),
                               to_haskell_str(T("I8"), v.f[2])>>)
               [] v.c = "ConwayMempoolFailure" ->
                      Format(<<R("ConwayMempoolFailure ")>>
                             \o [i \in 1..Len(Chars(v.f[1])) |-> MempoolChar(Chars(v.f[1])[i])]))
      [] t.k = "Enum" /\ t.n = "ConwayUtxoWPredFailure" ->
            (CASE v.c = "UtxoFailure" ->
                      Format(<<R("(UtxoFailure "),
                               fmt(TEnum("ConwayUtxoPredFailure"), v.f[1]), R(")")>>)
               [] v.c = "InvalidMetadata" -> R("InvalidMetadata")
               [] v.c \in {"MissingTxBodyMetadataHash", "MissingTxMetadata"} ->
                      R("(" \o v.c \o " (" \o as_aux_data_hash(v.f[1]) \o "))")
               [] v.c = "ConflictingMetadataHash" ->
                      R("(ConflictingMetadataHash (" \o as_aux_data_hash(v.f[1]) \o ") ("
                        \o as_aux_data_hash(v.f[2]) \o "))")
               [] OTHER -> RExt)
      [] t.k = "Enum" /\ t.n = "ConwayUtxoPredFailure" ->
            (CASE v.c = "UtxosFailure" ->
                      Format(<<R("UtxosFailure ("), fmt(t, v.f[1]), R(")")>>)
               [] v.c \in {"InputSetEmptyUTxO", "NoCollateralInputs"} -> R(v.c)
               [] v.c = "FeeTooSmallUTxO" ->
                      Format(<<R("FeeTooSmallUTxO ("), fmt(TCoin, v.f[1]), R(") ("),
                               fmt(TCoin, v.f[2]), R(")")>>)
               [] v.c = "InsufficientCollateral" ->
                      Format(<<R("InsufficientCollateral ("), fmt(T("DeltaCoin"), v.f[1]),
                               R(") ("), fmt(TCoin, v.f[2]), R(")")>>)
               [] v.c = "IncorrectTotalCollateralField" ->
                      Format(<<R("IncorrectTotalCollateralField ("), fmt(TCoin, v.f[1]),
                               R(", "), fmt(TCoin, v.f[2]), R(")")>>)
               [] v.c \in {"WrongNetwork", "WrongNetworkWithdrawal"} ->
                      Format(<<R(v.c \o " (" \o v.f[1].c \o ") ("),
                               display_vec(T("Bytes"), v.f[2]), R(")")>>)
               [] OTHER -> RExt)
      [] t.k = "Enum" /\ t.n = "ConwayGovPredFailure" ->
            (CASE v.c = "ProposalProcedureNetworkIdMismatch" ->
                      Format(<<R("ProposalProcedureNetworkIdMismatch ("),
                               fmt(T("RewardAccountFielded"), v.f[1]),
                               R(") " \o v.f[2].c)>>)
               [] v.c = "TreasuryWithdrawalsNetworkIdMismatch" ->
                      Format(<<R("TreasuryWithdrawalsNetworkIdMismatch ("),
                               to_haskell_str(TSet258(T("Bytes")), v.f[1]),
                               R(") " \o v.f[2].c)>>)
               [] v.c = "ConflictingCommitteeUpdate" ->
                      Format(<<R("ConflictingCommitteeUpdate ("),
                               to_haskell_str(TSet258(TEnum("Credential")), v.f[1]), R(")")>>)
               [] v.c = "ExpirationEpochTooSmall" ->
                      Format(<<R("ExpirationEpochTooSmall ("),
                               to_haskell_str(THashMap(TExt, T("EpochNo")), v.f[1]), R(")")>>)
               [] OTHER -> RExt)
      [] t.k = "Enum" /\ t.n = "ConwayCertsPredFailure" ->
             IF v.c = "WithdrawalsNotInRewardsCERTS"
             THEN Format(<<R("WithdrawalsNotInRewardsCERTS ("),
                           display_hashmap(T("RewardAccountFielded"), TCoin, v.f[1]), R(")")>>)
             ELSE Format(<<R("CertFailure ("),
                           fmt(TEnum("ConwayCertPredFailure"), v.f[1]), R(")")>>)
      [] t.k = "Enum" /\ t.n = "ConwayCertPredFailure" ->
             IF v.c = "GovCertFailure"
             THEN Format(<<R("GovCertFailure ("),
                           fmt(TEnum("ConwayGovCertPredFailure"), v.f[1]), R(")")>>)
             ELSE RExt
      [] t.k = "Enum" /\ t.n = "ConwayGovCertPredFailure" ->
             IF v.c \in {"ConwayDRepIncorrectDeposit", "ConwayDRepIncorrectRefund"}
             THEN Format(<<R(v.c \o " ("), fmt(TCoin, v.f[1]), R(") ("),
                           fmt(TCoin, v.f[2]), R(")")>>)
             ELSE R(v.c \o " (" \o CredentialStr(v.f[1]) \o ")")
      [] OTHER -> RExt

\* serde_json::to_value(generate_error_response(error)): the three tagged
\* wrappers around the TxValidationError, whose errors serialize through Display.
generate_error_response(error) ==
    LET texts == RenderAll("fmt", TEnum("ApplyConwayTxPredError"), error.error)
        all == Format(texts)
    IN  IF all.st # "ok" THEN [st |-> all.st, body |-> all.s]
        ELSE [st |-> "ok",
              body |->
                [tag |-> "TxSubmitFail",
                 contents |->
                   [tag |-> "TxCmdTxSubmitValidationError",
                    contents |->
                      [tag |-> "TxValidationErrorInCardanoMode",
                       contents |->
                         [kind |-> error.kind,
                          error |-> [i \in 1..Len(texts) |-> texts[i].s],
                          era |-> error.era.c]]]]]

(***************************************************************************)
(* The payloads the node can send, built with a CBOR encoder.              *)
(***************************************************************************)
MaxTag == 24      \* discriminants 0..MaxTag are tried in every enum context

MaxErrors == 2    \* errors in one rejection

MaxSetLen == 3    \* elements in one tag 258 set

MaxHeader == 4    \* declared lengths 0..MaxHeader of a variant's array header

MaxSlot == 2      \* slot numbers 0..MaxSlot

\* The head of a data item: major type and argument, in the shortest form.
EncHead(major, n) ==
    IF n < 24 THEN <<major * 32 + n>>
    ELSE IF n < 256 THEN <<major * 32 + 24, n>>
    ELSE IF n < 65536 THEN <<major * 32 + 25, n \div 256, n % 256>>
    ELSE <<major * 32 + 26, n \div 16777216, (n \div 65536) % 256,
           (n \div 256) % 256, n % 256>>

\* The head of an unsigned integer in a chosen width of 1, 2, 4 or 8 bytes.
EncWide(n, w) ==
    CASE w = 1 -> <<24, n>>
      [] w = 2 -> <<25, n \div 256, n % 256>>
      [] w = 4 -> <<26, 0, 0, n \div 256, n % 256>>
      [] w = 8 -> <<27, 0, 0, 0, 0, 0, 0, n \div 256, n % 256>>

EncU(n) == EncHead(0, n)

RECURSIVE Flatten(_)
Flatten(items) == IF items = <<>> THEN <<>> ELSE Head(items) \o Flatten(Tail(items))

\* An array whose header declares h items, whatever follows.
EncArrH(h, items) == EncHead(4, h) \o Flatten(items)

EncArr(items) == EncArrH(Len(items), items)

EncBytes(bytes) == EncHead(2, Len(bytes)) \o bytes

EncStr(bytes) == EncHead(3, Len(bytes)) \o bytes

EncTag(n, item) == EncHead(6, n) \o item

\* entries holds keys and values in turn; the head counts the pairs.
EncMap(entries) == EncHead(5, Len(entries) \div 2) \o Flatten(entries)

\* A 28 byte hash of one repeated byte.
Hash(x) == [i \in 1..28 |-> x]

RECURSIVE SeqsUpTo(_, _)
SeqsUpTo(S, n) ==
    IF n = 0 THEN {<<>>}
    ELSE SeqsUpTo(S, n - 1)
         \cup {Append(q, x) : q \in {r \in SeqsUpTo(S, n - 1) : Len(r) = n - 1}, x \in S}

\* Encoded credentials: two key hashes and a script hash.
CredentialPool ==
    {EncArr(<<EncU(0), EncBytes(<<171, 1>>)>>),
     EncArr(<<EncU(0), EncBytes(<<5>>)>>),
     EncArr(<<EncU(1), EncBytes(<<171, 1>>)>>)}

\* Encoded ApplyConwayTxPredError items.
ErrorPool ==
    {EncArr(<<EncU(5), EncU(911190), EncU(528342)>>),
     EncArr(<<EncU(5), EncU(7), EncU(0)>>),
     EncArr(<<EncU(6), <<32>>, EncU(5)>>),
     EncArr(<<EncU(7), EncStr(<<97, 98>>)>>),
     EncArr(<<EncU(7), EncStr(<<195, 169, 49>>)>>),
     EncArr(<<EncU(4), EncArr(<<EncBytes(<<1>>), EncBytes(<<2>>), EncBytes(<<1>>)>>)>>),
     EncArr(<<EncU(1), EncArr(<<EncU(8)>>)>>),
     EncArr(<<EncU(1), EncArr(<<EncU(0), EncArr(<<EncU(5), EncU(3), EncU(4)>>)>>)>>),
     EncArr(<<EncU(3), EncArr(<<EncU(7), EncMap(<<>>)>>)>>),
     EncArr(<<EncU(3), EncArr(<<EncU(2), EncBytes(<<224, 9>>), EncU(0)>>)>>),
     EncArr(<<EncU(2), EncArr(<<EncU(0),
              EncMap(<<EncBytes(<<224, 9>>), EncU(1), EncBytes(<<225, 8>>), EncU(2)>>)>>)>>),
     EncArr(<<EncU(2), EncArr(<<EncU(1), EncArr(<<EncU(3),
              EncArr(<<EncU(2), EncU(1), EncU(2)>>)>>)>>)>>)}

\* Items that end the decode: an unknown discriminant, a reward account with no
\* bytes (as a map key and as a field), a set under the wrong tag.
BadErrorPool ==
    {EncArr(<<EncU(9)>>),
     EncArr(<<EncU(2), EncArr(<<EncU(0), EncMap(<<EncBytes(<<>>), EncU(0)>>)>>)>>),
     EncArr(<<EncU(3), EncArr(<<EncU(2), EncBytes(<<>>), EncU(0)>>)>>),
     EncArr(<<EncU(3), EncArr(<<EncU(6), EncTag(24, EncArr(<<>>))>>)>>)}

\* [[era, [error, ...]]]
Payload(era, errors) == EncArr(<<EncArr(<<EncU(era), EncArr(errors)>>)>>)

\* 8182068183051a000de7561a00080fd6 (tests/specific.rs, test_cbor_0001)
Payload0001 == <<129, 130, 6, 129, 131, 5, 26, 0, 13, 231, 86, 26, 0, 8, 15, 214>>

In(t, b) == [t |-> t, b |-> b]

\* Rejections handed to try_decode_error.
RejectionInputs ==
    {In(T("TxValidationError"), Payload(6, es)) :
         es \in SeqsUpTo(ErrorPool \cup BadErrorPool, MaxErrors)}
    \cup {In(T("TxValidationError"), Payload(era, <<>>)) : era \in 0..7}
    \cup {In(T("TxValidationError"), Payload0001)}
    \cup {In(T("TxValidationError"),
             Payload(6, <<EncArr(<<EncU(3), EncArr(<<EncU(6),
                          EncTag(258, EncArr(cs))>>)>>)>>)) :
              cs \in SeqsUpTo(CredentialPool, MaxSetLen)}
    \cup {In(T("TxValidationError"),
             EncArr(<<EncArr(<<EncU(6), EncArr(<<
                 EncArrH(h, <<EncU(5), EncU(911190), EncU(528342)>>)>>)>>)>>)) :
              h \in 0..MaxHeader}

\* Every enum context on every discriminant, with no field after it.
DiscriminantInputs ==
    {In(TEnum(ctx), IF ctx = "Network" THEN EncU(tag) ELSE EncArr(<<EncU(tag)>>)) :
         ctx \in EnumContexts, tag \in 0..MaxTag}

\* Well-formed bodies of variants, under every declared header length.
VariantBodies ==
    {<<"ApplyConwayTxPredError", <<EncU(5), EncU(3), EncU(4)>> >>,
     <<"ApplyConwayTxPredError", <<EncU(6), EncU(1), <<32>> >> >>,
     <<"ConwayUtxoWPredFailure", <<EncU(8)>> >>,
     <<"ConwayUtxoPredFailure", <<EncU(4)>> >>,
     <<"ConwayUtxoPredFailure", <<EncU(5), EncU(3), EncU(4)>> >>,
     <<"ConwayUtxoPredFailure", <<EncU(0), EncArr(<<EncU(19)>>)>> >>,
     <<"ConwayGovCertPredFailure", <<EncU(2), EncU(3), EncU(4)>> >>,
     <<"ConwayGovCertPredFailure", <<EncU(0), EncArr(<<EncU(0), EncBytes(<<5>>)>>)>> >>,
     <<"ConwayCertsPredFailure", <<EncU(0), EncMap(<<>>)>> >>,
     <<"ConwayUtxosPredFailure", <<EncU(1)>> >>,
     <<"ConwayUtxosPredFailure", <<EncU(0), <<245>>, EncArr(<<EncU(0)>>)>> >>,
     <<"ShelleyPoolPredFailure", <<EncU(1), EncU(1), EncU(2), EncU(3)>> >>,
     <<"TagMismatchDescription", <<EncU(0)>> >>,
     <<"Credential", <<EncU(0), EncBytes(<<5>>)>> >>,
     <<"Credential", <<EncU(1), EncBytes(<<171, 1>>)>> >>,
     <<"ShelleyBasedEra", <<EncU(6)>> >>,
     <<"TimelockRaw", <<EncU(4), EncU(1)>> >>,
     <<"TimelockRaw", <<EncU(1), EncArr(<<EncArr(<<EncU(5), EncU(2)>>)>>)>> >>,
     <<"EraScript", <<EncU(0), EncArr(<<EncU(4), EncU(1)>>)>> >>,
     <<"DatumEnum", <<EncU(2)>> >>}

HeaderInputs ==
    {In(TEnum(vb[1]), EncArrH(h, vb[2])) : vb \in VariantBodies, h \in 0..MaxHeader}

\* Optional fields: StrictMaybe of a primitive, of a coin and of a credential
\* under headers of length 0, 1, 2 and indefinite; ValidityInterval bounds.
OptionalInputs ==
    {In(TStrictMaybe(T("U64")), b) :
         b \in {EncArrH(h, <<EncU(n)>>) : h \in 0..2, n \in 0..MaxSlot}
               \cup {<<128>>, <<159, 255>>}}
    \cup {In(TStrictMaybe(TCoin), b) :
         b \in {EncArrH(h, <<EncU(n)>>) : h \in 0..2, n \in 0..MaxSlot} \cup {<<128>>}}
    \cup {In(TStrictMaybe(TEnum("Credential")), b) :
         b \in {EncArr(<<c>>) : c \in CredentialPool} \cup {<<128>>}}
    \cup {In(T("ValidityInterval"), EncArr(<<lo, hi>>)) :
         lo \in {EncArrH(h, <<EncU(n)>>) : h \in 1..2, n \in 0..MaxSlot} \cup {<<128>>},
         hi \in {EncArr(<<EncU(n)>>) : n \in 0..MaxSlot} \cup {<<128>>}}

\* Tagged wrappers under right and wrong tags.
WrapperInputs ==
    {In(TSet258(TEnum("Credential")), EncTag(tag, EncArr(cs))) :
         tag \in {258, 24, 259, 6}, cs \in SeqsUpTo(CredentialPool, MaxSetLen)}
    \cup {In(TCborBytes(T("Bytes")), EncTag(tag, EncBytes(bs))) :
         tag \in {24, 258, 25, 6}, bs \in {<<>>, <<1>>, <<1, 2>>}}
    \cup {In(TSet258(TEnum("Credential")), <<128>>), In(TCborBytes(T("Bytes")), <<64>>)}

\* The index-or-item field on integers of every width and on other types.
PurposeInputs ==
    {In(T("PurposeAs"), b) :
         b \in {EncU(n) : n \in {0, 5, 23, 24, 100, 255, 256, 65535, 65536}}
               \cup {EncWide(n, w) : n \in {5, 255}, w \in {1, 2, 4, 8}}
               \cup {EncBytes(<<>>), EncBytes(<<224, 9>>), EncStr(<<97>>), <<32>>, <<128>>,
                     <<160>>, <<245>>, <<246>>, EncTag(24, <<0>>), <<>>}}

\* Byte strings read as an address, a reward account, a certificate, an output.
ByteStringInputs ==
    {In(T("DisplayAddress"), EncBytes(bs)) :
         bs \in {<<>>, <<144>>, <<96, 1, 2>>, <<96>> \o Hash(1), <<97>> \o Hash(2),
                 <<112>> \o Hash(3), <<114>> \o Hash(3), <<224>> \o Hash(4)}}
    \cup {In(T("DisplayAddress"), <<5>>)}
    \cup {In(T("RewardAccountFielded"), EncBytes(bs)) :
         bs \in {<<>>, <<224>>, <<224, 9>>, <<225, 9>>, <<14, 0>>, <<224>> \o Hash(4)}}
    \cup {In(T("ConwayTxCert"), b) :
         b \in {EncArr(<<EncU(k), EncArr(<<EncU(c), EncBytes(Hash(7))>>)>>) :
                    k \in {0, 1}, c \in {0, 1, 2}}
               \cup {EncArr(<<EncU(4), EncBytes(Hash(7)), EncU(9)>>),
                     EncArr(<<EncU(4), EncBytes(<<7>>), EncU(9)>>),
                     EncArr(<<EncU(7), EncArr(<<EncU(0), EncBytes(Hash(7))>>), EncU(2)>>),
                     EncArr(<<EncU(8), EncArr(<<EncU(1), EncBytes(Hash(7))>>), EncU(2)>>),
                     EncArr(<<EncU(5)>>), EncArr(<<EncU(19)>>)}}
    \cup {In(T("BabbageTxOut"), b) :
         b \in {<<160>>, <<161>>, <<162>>, <<163>>, <<191>>, <<165>>, <<128>>,
                <<164, 0>> \o EncBytes(<<144>>), <<164, 0>> \o EncBytes(<<>>),
                <<164, 0, 0>>}}

MaxNesting == 4   \* UtxosFailure wrapped around itself 0..MaxNesting times

\* A ConwayUtxoPredFailure under d levels of UtxosFailure: [0, [0, ... leaf]].
RECURSIVE Nested(_, _)
Nested(d, leaf) == IF d = 0 THEN leaf ELSE EncArr(<<EncU(0), Nested(d - 1, leaf)>>)

\* Self-nested UTxO failures over a leaf that decodes, one that does not, and
\* one cut short.
NestingInputs ==
    {In(TEnum("ConwayUtxoPredFailure"), Nested(d, leaf)) :
         d \in 0..MaxNesting,
         leaf \in {EncArr(<<EncU(4)>>), EncArr(<<EncU(19)>>), EncArr(<<EncU(23)>>),
                   EncArr(<<EncU(17), EncU(1)>>), <<130>>}}
    \cup {In(T("TxValidationError"),
             Payload(6, <<EncArr(<<EncU(1), EncArr(<<EncU(0),
                          Nested(d, EncArr(<<EncU(4)>>))>>)>>)>>)) :
              d \in 0..MaxNesting}

MaxText == 4      \* characters in one string over LongAlphabet

\* str::as_bytes of a string of code points below 2048.
RECURSIVE Utf8(_)
Utf8(s) ==
    IF s = <<>> THEN <<>>
    ELSE (IF Head(s) < 128 THEN <<Head(s)>>
          ELSE <<192 + (Head(s) \div 64), 128 + (Head(s) % 64)>>) \o Utf8(Tail(s))

\* Every C0 code and DEL, printable characters of each kind (space, the quote,
\* the backslash, the ampersand, digits on both sides of 7, letters), and code
\* points above 127. The grave accent is left out: see Ascii.
TextAlphabet ==
    (0..31) \cup {127} \cup {32, 34, 38, 48, 53, 55, 56, 57, 65, 72, 92, 126}
    \cup {128, 233, 1234}

\* SO, 'H', '8', e-acute and the quote.
LongAlphabet == {14, 72, 56, 233, 34}

\* Strings handed to haskell_show_string through String::to_haskell_str:
\* every character alone, every ordered pair, and longer strings over
\* LongAlphabet.
TextInputs ==
    {In(T("String"), EncStr(Utf8(s))) :
         s \in {<<c>> : c \in TextAlphabet}
               \cup {<<c, d>> : c \in TextAlphabet, d \in TextAlphabet}
               \cup SeqsUpTo(LongAlphabet, MaxText)}

\* The key/value pairs of a map, each key with the value 9.
Paired(ks) == [i \in 1..(2 * Len(ks)) |-> IF i % 2 = 1 THEN ks[(i + 1) \div 2] ELSE EncU(9)]

\* Plain sequences, tag 258 sets and maps of integers, empty to MaxSetLen long.
CollectionInputs ==
    {In(TVec(T("U64")), EncArr(xs)) : xs \in SeqsUpTo({EncU(7), EncU(8)}, MaxSetLen)}
    \cup {In(TSet258(T("U64")), EncTag(258, EncArr(xs))) :
              xs \in SeqsUpTo({EncU(7), EncU(8)}, MaxSetLen)}
    \cup {In(THashMap(T("U64"), T("U64")), EncMap(Paired(ks))) :
              ks \in SeqsUpTo({EncU(1), EncU(2), EncU(3)}, MaxSetLen)}

\* Optional scripts: absent, and a native script that starts at a slot.
ScriptInputs ==
    {In(TStrictMaybe(TEnum("EraScript")), b) :
         b \in {<<128>>}
               \cup {EncArr(<<EncArr(<<EncU(0), EncArr(<<EncU(4), EncU(n)>>)>>)>>) :
                         n \in 0..MaxSlot}}

\* Compound values with every field on the wire: script-collection failures
\* with their list of errors, and outputs in the map form with 2 and 3 entries.
FieldInputs ==
    {In(TEnum("ConwayUtxosPredFailure"), b) :
         b \in {EncArr(<<EncU(1), EncArr(<<>>)>>),
                EncArr(<<EncU(1), EncArr(<<EncArr(<<EncU(0), EncU(7)>>)>>)>>)}}
    \cup {In(T("BabbageTxOut"), b) :
         b \in {EncMap(<<EncU(0), EncBytes(<<>>), EncU(1), EncU(0)>>),
                EncMap(<<EncU(0), EncBytes(<<>>), EncU(1), EncU(0), EncU(2), EncU(5)>>)}}

\* Rejections of two errors whose first error carries one wire field more than
\* its variant declares.
OverlongInputs ==
    {In(T("TxValidationError"),
        Payload(6, <<EncArr(<<EncU(5), EncU(3), EncU(4), extra>>),
                     EncArr(<<EncU(5), EncU(1), EncU(2)>>)>>)) :
         extra \in {EncU(9), EncArr(<<EncU(5), EncU(3), EncU(4)>>)}}

MaxAnnounced == 3   \* optional fields under array headers of length 0..MaxAnnounced

\* Optional slot numbers under every definite header length with as many
\* elements as the header announces, and under an indefinite header.
AnnouncedInputs ==
    {In(TStrictMaybe(T("SlotNo")), b) :
         b \in {EncArr(es) : es \in SeqsUpTo({EncU(1), EncU(2)}, MaxAnnounced)}
               \cup {<<159, 255>>, <<159, 1, 255>>}}

\* Strings whose escapes could be taken for one another: a numeric escape
\* followed by a digit, and the code point whose number has that digit last.
EscapeInputs ==
    {In(T("String"), EncStr(Utf8(s))) :
         s \in {<<128, 48>>, <<128, 49>>, <<1280>>, <<1281>>, <<128, 49, 49>>, <<1281, 49>>}}

\* A rejection payload that decodes, followed by extra bytes.
TrailingInputs ==
    {In(T("TxValidationError"), Payload(6, es) \o extra) :
         es \in {<<>>, <<EncArr(<<EncU(5), EncU(7), EncU(0)>>)>>},
         extra \in {<<0>>, <<255>>, <<129, 0>>}}

\* Reward accounts under each of the four header bytes e0, e1, f0, f1.
AccountInputs ==
    {In(T("RewardAccountFielded"), EncBytes(<<h>> \o Hash(4))) : h \in {224, 225, 240, 241}}

Inputs ==
    RejectionInputs \cup DiscriminantInputs \cup HeaderInputs \cup OptionalInputs
    \cup WrapperInputs \cup PurposeInputs \cup ByteStringInputs \cup NestingInputs
    \cup TextInputs \cup CollectionInputs \cup ScriptInputs \cup FieldInputs
    \cup OverlongInputs \cup AnnouncedInputs \cup EscapeInputs
    \cup TrailingInputs \cup AccountInputs

\* Option::None and Option::Some(x)
None == <<>>
Some(x) == <<x>>

\* The arguments before anything is built from them.
NoCli == [args |-> <<>>, at |-> "idle", config |-> <<>>]

(***************************************************************************)
(* The state machine: one buffer is decoded, and what it decodes to is     *)
(* rendered.                                                               *)
(***************************************************************************)
NoResult == [st |-> "none", pos |-> 0, val |-> 0, msg |-> "", bad |-> -1]

NoResponse == [st |-> "none", body |-> ""]

\* The position a decode result leaves the handler at.
After(st) ==
    CASE st = "ok" -> "decoded"
      [] st = "err" -> "failed"
      [] st = "panic" -> "panicked"
      [] OTHER -> "outside"

\* What a handler has returned: nothing yet, Ok, or Err with the constructor
\* of the BlockfrostError, its status, and the form of its message.
NoReturn == [kind |-> "none", ctor |-> "", status |-> 0, form |-> ""]

\* No node handler is in progress.
NoCall ==
    [op |-> "none", at |-> "idle", trace |-> <<>>, result |-> NoReturn,
     reply |-> "none", reason |-> <<>>, ret |-> NoReturn]

Init ==
    /\ cli = NoCli
    /\ \E in \in Inputs : target = in.t /\ buffer = in.b
    /\ hashSeed \in {0, 1}
    /\ pc = "start"
    /\ result = NoResult
    /\ response = NoResponse
    /\ call = NoCall
    /\ tasks = <<>>

\* NodeClient::try_decode_error(buffer)
TryDecodeError ==
    /\ pc = "start"
    /\ target.k = "TxValidationError"
    /\ result' = decode(target, buffer, 0)
    /\ pc' = After(result'.st)
    /\ UNCHANGED <<cli, call, tasks, target, buffer, hashSeed, response>>

\* Decoder::new(buffer).decode::<T>() for a type T inside the tree
Decode ==
    /\ pc = "start"
    /\ target.k # "TxValidationError"
    /\ result' = decode(target, buffer, 0)
    /\ pc' = After(result'.st)
    /\ UNCHANGED <<cli, call, tasks, target, buffer, hashSeed, response>>

\* serde_json::to_value(&NodeClient::generate_error_response(error))
GenerateErrorResponse ==
    /\ pc = "decoded"
    /\ target.k = "TxValidationError"
    /\ response' = generate_error_response(result.val)
    /\ pc' = IF response'.st = "ok" THEN "rendered" ELSE After(response'.st)
    /\ UNCHANGED <<cli, call, tasks, target, buffer, hashSeed, result>>

\* The contexts whose text is their Display, having no HaskellDisplay.
DisplayOnly ==
    {"ApplyConwayTxPredError", "ConwayUtxoWPredFailure", "ConwayUtxoPredFailure",
     "ConwayGovPredFailure", "ConwayCertsPredFailure", "ConwayCertPredFailure",
     "ConwayGovCertPredFailure"}

\* value.to_haskell_str(), or value.to_string() where Display is the text;
\* CborBytes has neither.
ToHaskellStr ==
    /\ pc = "decoded"
    /\ target.k \notin {"TxValidationError", "CborBytes"}
    /\ LET r == IF target.k = "Enum" /\ target.n \in DisplayOnly
                THEN fmt(target, result.val)
                ELSE IF target.k = "Enum" /\ target.n = "ShelleyBasedEra"
                THEN R(result.val.c)
                ELSE to_haskell_str(target, result.val)
       IN  response' = [st |-> r.st, body |-> r.s]
    /\ pc' = IF response'.st = "ok" THEN "rendered" ELSE After(response'.st)
    /\ UNCHANGED <<cli, call, tasks, target, buffer, hashSeed, result>>

\* value.as_in_map(), the rendering of an optional value held in a map-like
\* position (BabbageTxOut renders its script with it).
AsInMap ==
    /\ pc = "decoded"
    /\ target.k = "StrictMaybe"
    /\ LET r == as_in_map(target.of[1], result.val)
       IN  response' = [st |-> r.st, body |-> r.s]
    /\ pc' = IF response'.st = "ok" THEN "rendered_in_map" ELSE After(response'.st)
    /\ UNCHANGED <<cli, call, tasks, target, buffer, hashSeed, result>>

Next == TryDecodeError \/ Decode \/ GenerateErrorResponse \/ ToHaskellStr \/ AsInMap

Spec == Init /\ [][Next]_vars

(***************************************************************************)
(* The node handlers: NodeClient::submit_transaction, NodeClient::ping     *)
(* (both through with_statequery), Node::sync_progress and                 *)
(* Node::submit_transaction.  One action per stretch of code that ends at  *)
(* an await; what the node answers is chosen by \E.  call.trace is what    *)
(* has happened on the state-query and submission clients, in order.       *)
(***************************************************************************)
Handlers ==
    {"NodeClient::submit_transaction", "NodeClient::ping",
     "Node::sync_progress", "Node::submit_transaction"}

\* The handlers that submit a transaction.
Submitters == {"NodeClient::submit_transaction", "Node::submit_transaction"}

\* The handlers that open their own connection.
Connectors == {"Node::sync_progress", "Node::submit_transaction"}

\* Ok(value)
ReturnOk(form) == [kind |-> "Ok", ctor |-> "", status |-> 200, form |-> form]

\* BlockfrostError::custom_400(message)
custom_400(form) == [kind |-> "Err", ctor |-> "custom_400", status |-> 400, form |-> form]

\* BlockfrostError::internal_server_error(message)
internal_server_error ==
    [kind |-> "Err", ctor |-> "internal_server_error", status |-> 500, form |-> "message"]

\* `?` on an error of a mini-protocol client: the From conversion into
\* BlockfrostError, whose status the sources at hand do not determine.
Converted == [kind |-> "Err", ctor |-> "from", status |-> 0, form |-> "message"]

\* base_date + days + duration_ns on a system start out of chrono's range: the
\* addition panics and nothing is returned.
Overflowed == [kind |-> "panic", ctor |-> "", status |-> 0, form |-> ""]

\* What the action handed to the state-query client can come to.
ActionResults(op) ==
    CASE op = "NodeClient::ping" -> {ReturnOk("unit")}
      [] op = "NodeClient::submit_transaction" -> {ReturnOk("era"), Converted}
      [] OTHER -> {ReturnOk("SyncProgress"), Converted, internal_server_error, Overflowed}

\* Where a handler starts.
Entry(op) ==
    CASE op \in Submitters -> "entry"
      [] op = "Node::sync_progress" -> "connecting"
      [] OTHER -> "acquiring"

\* The handler returns r.
Return(r) == [call EXCEPT !.at = "returned", !.ret = r]

\* As AfterAction, had the action been awaited with `?`.
AfterActionTried(r) == IF r.kind = "Err" THEN "returned" ELSE "releasing"

\* let result = action(client).await; the release is next whatever result is.
AfterAction(r) == "releasing"

\* As AfterRelease, had submit_transaction not put `?` on what with_statequery
\* returned.
AfterReleaseUnchecked(op, r) ==
    IF op = "NodeClient::submit_transaction" THEN "submitting" ELSE "returned"

\* with_statequery returns result; submit_transaction goes on to submit only
\* past the `?`, the other handlers return it.
AfterRelease(op, r) ==
    IF op = "NodeClient::submit_transaction" /\ r.kind = "Ok"
    THEN "submitting" ELSE "returned"

\* The rejection reasons the node sends: two bytes, then the payload that
\* try_decode_error is handed; and reasons shorter than two bytes.
Reasons ==
    {<<130, 2>> \o in.b :
         in \in {i \in RejectionInputs \cup NestingInputs : i.t.k = "TxValidationError"}}
    \cup {<<>>, <<130>>}

NodeInit ==
    /\ cli = NoCli
    /\ target = T("TxValidationError")
    /\ buffer = <<>>
    /\ hashSeed \in {0, 1}
    /\ pc = "start"
    /\ result = NoResult
    /\ response = NoResponse
    /\ tasks = <<>>
    /\ \E op \in Handlers : call = [NoCall EXCEPT !.op = op, !.at = Entry(op)]

\* hex::decode(tx).map_err(..)?
DecodeTx ==
    /\ call.at = "entry"
    /\ \E valid \in BOOLEAN :
           call' = IF ~valid
                   THEN [Return(custom_400("message")) EXCEPT
                             !.trace = Append(call.trace, "hex_invalid")]
                   ELSE [call EXCEPT !.at = IF call.op \in Connectors
                                            THEN "connecting" ELSE "acquiring",
                                     !.trace = Append(call.trace, "hex")]
    /\ UNCHANGED <<cli, target, buffer, hashSeed, pc, result, response, tasks>>

\* self.connect().await?
Connect ==
    /\ call.at = "connecting"
    /\ \E connected \in BOOLEAN :
           call' = IF ~connected THEN Return(custom_400("message"))
                   ELSE [call EXCEPT !.at = IF call.op \in Submitters
                                            THEN "submitting" ELSE "acquiring"]
    /\ UNCHANGED <<cli, target, buffer, hashSeed, pc, result, response, tasks>>

\* client.acquire(None).await?
Acquire ==
    /\ call.at = "acquiring"
    /\ \E acquired \in BOOLEAN :
           call' = IF ~acquired
                   THEN [Return(Converted) EXCEPT !.trace = Append(call.trace, "acquire")]
                   ELSE [call EXCEPT !.at = "acquired",
                                     !.trace = call.trace \o <<"acquire", "acquired">>]
    /\ UNCHANGED <<cli, target, buffer, hashSeed, pc, result, response, tasks>>

\* let result = action(client).await;
RunAction ==
    /\ call.at = "acquired"
    /\ \E r \in ActionResults(call.op) :
           call' = [call EXCEPT !.at = IF r.kind = "panic" THEN "panicked"
                                        ELSE AfterAction(r),
                                !.result = r,
                                !.trace = Append(call.trace, "action")]
    /\ UNCHANGED <<cli, target, buffer, hashSeed, pc, result, response, tasks>>

\* if let Err(e) = client.send_release().await { warn!(..) }; result
\* and, in submit_transaction, the `?` on what with_statequery returned.
SendRelease ==
    /\ call.at = "releasing"
    /\ call' = IF AfterRelease(call.op, call.result) = "submitting"
               THEN [call EXCEPT !.at = "submitting",
                                 !.trace = call.trace \o <<"release", "return">>]
               ELSE [Return(call.result) EXCEPT
                         !.trace = call.trace \o <<"release", "return">>]
    /\ UNCHANGED <<cli, target, buffer, hashSeed, pc, result, response, tasks>>

\* submit_tx(era_tx).await is Ok(Response::Accepted)
SubmitAccepted ==
    /\ call.at = "submitting"
    /\ call' = [Return(ReturnOk("txid")) EXCEPT !.reply = "Accepted",
                                                !.trace = Append(call.trace, "submit")]
    /\ UNCHANGED <<cli, target, buffer, hashSeed, pc, result, response, tasks>>

\* What the Rejected arm of NodeClient::submit_transaction comes to, given
\* what try_decode_error and the rendering of the envelope came to.
RejectedArm(decoded, rendered) ==
    CASE decoded.st = "ok" /\ rendered.st = "ok" -> Return(custom_400("envelope"))
      [] decoded.st = "err" -> Return(custom_400("message"))
      [] decoded.st = "panic" \/ (decoded.st = "ok" /\ rendered.st = "panic") ->
             [call EXCEPT !.at = "panicked"]
      [] OTHER -> [call EXCEPT !.at = "outside"]

\* submit_tx(era_tx).await is Ok(Response::Rejected(reason)): in NodeClient
\* the reason without its first two bytes is decoded and rendered, in Node
\* it is returned in hex.
SubmitRejected ==
    /\ call.at = "submitting"
    /\ \E reason \in Reasons :
           IF call.op = "Node::submit_transaction"
           THEN /\ buffer' = reason
                /\ call' = [Return(custom_400("hex")) EXCEPT
                                !.reply = "Rejected", !.reason = reason,
                                !.trace = Append(call.trace, "submit")]
                /\ UNCHANGED <<pc, result, response>>
           ELSE IF Len(reason) < 2
           THEN /\ buffer' = reason
                /\ pc' = "panicked"
                /\ call' = [call EXCEPT !.at = "panicked", !.reply = "Rejected", !.reason = reason,
                                        !.trace = Append(call.trace, "submit")]
                /\ UNCHANGED <<result, response>>
           ELSE /\ buffer' = SubSeq(reason, 3, Len(reason))
                /\ result' = decode(target, buffer', 0)
                /\ response' = IF result'.st = "ok"
                               THEN generate_error_response(result'.val)
                               ELSE NoResponse
                /\ pc' = IF result'.st # "ok" THEN After(result'.st)
                         ELSE IF response'.st = "ok" THEN "rendered"
                         ELSE After(response'.st)
                /\ call' = [RejectedArm(result', response') EXCEPT
                                !.reply = "Rejected", !.reason = reason,
                                !.trace = Append(call.trace, "submit")]
    /\ UNCHANGED <<cli, target, hashSeed, tasks>>

\* submit_tx(era_tx).await is Err(e)
SubmitTransportError ==
    /\ call.at = "submitting"
    /\ call' = [Return(custom_400("message")) EXCEPT
                    !.reply = "TransportError",
                    !.trace = Append(call.trace, "submit")]
    /\ UNCHANGED <<cli, target, buffer, hashSeed, pc, result, response, tasks>>

NodeNext ==
    \/ DecodeTx \/ Connect \/ Acquire \/ RunAction \/ SendRelease
    \/ SubmitAccepted \/ SubmitRejected \/ SubmitTransportError

NodeSpec == NodeInit /\ [][NodeNext]_vars

(***************************************************************************)
(* Decode-and-render invocations queued on one worker thread.  Each is     *)
(* try_decode_error followed by generate_error_response, run to its end    *)
(* before the thread takes the next; the order is any.  hashSeed is the    *)
(* thread's RandomState key cell: every HashMap the decoder creates takes  *)
(* its keys from it and advances it.                                       *)
(***************************************************************************)
NumTasks == 2     \* invocations queued on the thread

\* The payloads queued: two errors with a map of two entries, a map with no
\* entry, no map, and an unknown discriminant.
TaskPool ==
    {Payload(6, <<EncArr(<<EncU(2), EncArr(<<EncU(0),
         EncMap(<<EncBytes(<<224, 9>>), EncU(1), EncBytes(<<225, 8>>), EncU(2)>>)>>)>>)>>),
     Payload(6, <<EncArr(<<EncU(2), EncArr(<<EncU(0),
         EncMap(<<EncBytes(<<225, 8>>), EncU(3), EncBytes(<<224, 9>>), EncU(4)>>)>>)>>)>>),
     Payload(6, <<EncArr(<<EncU(3), EncArr(<<EncU(7), EncMap(<<>>)>>)>>)>>),
     Payload(6, <<EncArr(<<EncU(5), EncU(7), EncU(0)>>)>>),
     Payload(6, <<EncArr(<<EncU(9)>>)>>)}

\* A decoded error holds a HashMap: the decoder made it with HashMap::default().
HoldsHashMap(e) ==
    /\ e.c \in {"ConwayCertsFailure", "ConwayGovFailure"}
    /\ e.f[1].c \in {"WithdrawalsNotInRewardsCERTS", "ExpirationEpochTooSmall"}

\* How many HashMaps decoding made (the payloads of TaskPool that fail make
\* none before they fail).
HashMapsMade(r) ==
    IF r.st # "ok" THEN 0
    ELSE Cardinality({i \in 1..Len(r.val.error) : HoldsHashMap(r.val.error[i])})

\* What one invocation gives back: the texts of the envelope's error list, or
\* how it ended.
Outcome(r, env) ==
    IF r.st # "ok" THEN [st |-> r.st, error |-> <<>>]
    ELSE IF env.st # "ok" THEN [st |-> env.st, error |-> <<>>]
    ELSE [st |-> "ok", error |-> env.body.contents.contents.contents.error]

\* try_decode_error(buffer) and generate_error_response(error), with the
\* thread's key cell as it stands.
Run(b) ==
    Outcome(decode(T("TxValidationError"), b, 0),
            IF decode(T("TxValidationError"), b, 0).st = "ok"
            THEN generate_error_response(decode(T("TxValidationError"), b, 0).val)
            ELSE NoResponse)

\* Every task holds its buffer and, for reference, what its invocation gives
\* when it is the first the thread runs.
TaskInit ==
    /\ cli = NoCli
    /\ target = T("TxValidationError")
    /\ buffer = <<>>
    /\ hashSeed \in {0, 1}
    /\ pc = "start"
    /\ result = NoResult
    /\ response = NoResponse
    /\ call = NoCall
    /\ \E bs \in [1..NumTasks -> TaskPool] :
           tasks = [i \in 1..NumTasks |->
                        [buffer |-> bs[i], st |-> "queued",
                         out |-> [st |-> "none", error |-> <<>>],
                         alone |-> Run(bs[i])]]

\* The thread runs task i to its end.
Invoke(i) ==
    /\ tasks[i].st = "queued"
    /\ tasks' = [tasks EXCEPT ![i].st = "done", ![i].out = Run(tasks[i].buffer)]
    /\ hashSeed' = (hashSeed
                    + HashMapsMade(decode(T("TxValidationError"), tasks[i].buffer, 0))) % 2
    /\ UNCHANGED <<cli, target, buffer, pc, result, response, call>>

TaskNext == \E i \in 1..NumTasks : Invoke(i)

TaskSpec == TaskInit /\ [][TaskNext]_vars

(***************************************************************************)
(* The configuration, src/cli.rs.  An Option is None or Some(x).           *)
(***************************************************************************)
\* Every value of the fields of Args that to_config reads, `config` telling
\* whether a configuration file was merged into them (Args::from_file).
AllArgs ==
    [network : {None, Some("Mainnet"), Some("Preprod"), Some("Preview")},
     node_socket_path : {None, Some("/run/node.socket")},
     mode : {"Compact", "Light", "Full"},
     solitary : BOOLEAN,
     secret : {None, Some("secret")},
     reward_address : {None, Some("stake_test1")},
     config : BOOLEAN]

\* What clap's attributes let through on a command line without --init and
\* --config: network and node_socket_path are required, secret and
\* reward_address are required unless --solitary is given and conflict with it.
ClapAccepts(a) ==
    /\ a.network # None
    /\ a.node_socket_path # None
    /\ a.solitary => (a.secret = None /\ a.reward_address = None)
    /\ ~a.solitary => (a.secret # None /\ a.reward_address # None)

\* The arguments Config::init hands to to_config: those of the command line,
\* or those merged with a configuration file, whose fields clap does not check.
ArgsPool == {a \in AllArgs : a.config \/ ClapAccepts(a)}

\* Args::get_network_magic(network), by the name of the constant returned
get_network_magic(network) ==
    CASE network = "Mainnet" -> "MAINNET_MAGIC"
      [] network = "Preprod" -> "PREPROD_MAGIC"
      [] OTHER -> "PREVIEW_MAGIC"

\* match (&self.solitary, &self.reward_address, &self.secret)
icebreakers_config(args) ==
    IF args.solitary /\ args.reward_address # None /\ args.secret # None
    THEN Some([reward_address |-> args.reward_address[1], secret |-> args.secret[1]])
    ELSE None

\* Args::to_config(&self): the Config, or a panic of one of the unwraps.
to_config(args) ==
    IF args.network = None \/ args.node_socket_path = None
    THEN [st |-> "panic", config |-> <<>>]
    ELSE [st |-> "ok",
          config |-> [network_magic |-> get_network_magic(args.network[1]),
                      node_socket_path |-> args.node_socket_path[1],
                      mode |-> args.mode,
                      icebreakers_config |-> icebreakers_config(args),
                      max_pool_connections |-> 10,
                      network |-> args.network[1]]]

ConfigInit ==
    /\ target = T("TxValidationError")
    /\ buffer = <<>>
    /\ hashSeed = 0
    /\ pc = "start"
    /\ result = NoResult
    /\ response = NoResponse
    /\ call = NoCall
    /\ tasks = <<>>
    /\ \E args \in ArgsPool : cli = [args |-> args, at |-> "parsed", config |-> <<>>]

\* Ok(config_path.to_config())
ToConfig ==
    /\ cli.at = "parsed"
    /\ cli' = [cli EXCEPT !.at = IF to_config(cli.args).st = "ok"
                                 THEN "configured" ELSE "panicked",
                          !.config = to_config(cli.args).config]
    /\ UNCHANGED <<target, buffer, hashSeed, pc, result, response, call, tasks>>

ConfigNext == ToConfig

ConfigSpec == ConfigInit /\ [][ConfigNext]_vars

(***************************************************************************)
(* Properties.                                                             *)
(***************************************************************************)
\* The discriminants a context's match has an arm for other than `_`.
Dispatched(ctx) ==
    CASE ctx = "ApplyConwayTxPredError" -> 1..7
      [] ctx = "ShelleyPoolPredFailure" -> {0, 1, 3, 4, 5}
      [] ctx = "ConwayUtxosPredFailure" -> {0, 1}
      [] ctx = "ConwayUtxoWPredFailure" -> 0..17
      [] ctx = "ConwayUtxoPredFailure" -> 0..22
      [] ctx = "ConwayGovPredFailure" -> 0..17
      [] ctx = "ConwayCertsPredFailure" -> {0, 1}
      [] ctx = "ConwayPlutusPurpose" -> 0..5
      [] ctx = "ConwayCertPredFailure" -> {1, 2, 3}
      [] ctx = "ConwayGovCertPredFailure" -> 0..5
      [] ctx = "ConwayDelegPredFailure" -> 1..6
      [] ctx = "TagMismatchDescription" -> {0, 1}
      [] ctx = "FailureDescription" -> {1}
      [] ctx = "Network" -> {0, 1}
      [] ctx = "Credential" -> {0, 1}
      [] ctx = "ShelleyBasedEra" -> 1..6
      [] ctx = "PlutusPurpose" -> 0..5
      [] ctx = "EraScript" -> 0..3
      [] ctx = "TimelockRaw" -> 0..5
      [] ctx = "DatumEnum" -> {0, 1}

\* The array header an enum context reads first (Network reads none).
HeaderOf(ctx, b) == IF ctx = "Network" THEN Ok(0, 0) ELSE Array(b, 0)

\* The discriminant an enum context reads after its header.
DiscriminantOf(ctx, b) == Then(HeaderOf(ctx, b), LAMBDA a : U16(b, a.pos))

\* The decoder has returned.
Returned == pc # "start"

\* C1: in every enum context, a discriminant the context has no arm for makes
\* the decode fail; no context turns such a discriminant into a variant.
C1_UnknownDiscriminantFails ==
    (/\ Returned
     /\ target.k = "Enum"
     /\ DiscriminantOf(target.n, buffer).st = "ok"
     /\ DiscriminantOf(target.n, buffer).val \notin Dispatched(target.n))
    => result.st = "err"

\* C2: try_decode_error returns Ok or Err on every buffer; it never panics.
C2_TryDecodeErrorReturns ==
    (Returned /\ target.k = "TxValidationError") => result.st \in {"ok", "err"}

\* C3: rendering a decoded value never crashes the renderer; a variant without
\* a rendering rule gives a placeholder string.
C3_RenderingNeverCrashes == response.st # "panic"

\* The errors of a rejection as they stand on the wire: n items decoded one
\* after another from position p.
RECURSIVE WireErrors(_, _, _)
WireErrors(b, p, n) ==
    IF n = 0 THEN <<>>
    ELSE <<decode(TEnum("ApplyConwayTxPredError"), b, p).val>>
         \o WireErrors(b, decode(TEnum("ApplyConwayTxPredError"), b, p).pos, n - 1)

\* The header of the error list of a rejection [[era, [..]]] whose era is one byte.
ListHeader(b) == Array(b, 3)

\* The innermost contents of the response envelope.
Innermost == response.body.contents.contents.contents

Payload0001Gives(n1, n2) ==
    (target.k = "TxValidationError" /\ buffer = Payload0001 /\ Returned) =>
        /\ result.st = "ok"
        /\ result.val.era.c = "ShelleyBasedEraConway"
        /\ result.val.error
               = <<[c |-> "ConwayTreasuryValueMismatch", f |-> <<n1, n2>>]>>
        /\ pc = "rendered" =>
               Innermost.error
                   = <<"ConwayTreasuryValueMismatch (Coin " \o ToString(n1)
                       \o ") (Coin " \o ToString(n2) \o ")">>

\* C5 as stated: the payload decodes to era Conway and one
\* ConwayTreasuryValueMismatch of the coins 910742 and 528342, and the response
\* holds the one string "ConwayTreasuryValueMismatch (Coin 910742) (Coin 528342)".
C5_AsStated == Payload0001Gives(910742, 528342)

\* C5 amended: the payload decodes to era Conway and one
\* ConwayTreasuryValueMismatch of the coins 911190 (wire 0x000de756) and 528342
\* (wire 0x00080fd6), and the response holds the one string
\* "ConwayTreasuryValueMismatch (Coin 911190) (Coin 528342)".
C5_Payload0001 == Payload0001Gives(911190, 528342)

\* The payload of C5 has been decoded and rendered.
C5_Payload0001Rendered ==
    target.k = "TxValidationError" /\ buffer = Payload0001 /\ pc = "rendered"

\* The text of v after SJust: as it is for a primitive type, in parentheses
\* for any other.
AfterSJust(t, v) ==
    IF is_primitive(t) THEN to_haskell_str(t, v).s
    ELSE "(" \o to_haskell_str(t, v).s \o ")"

\* The text of one bound of a ValidityInterval whose array starts at p.
BoundText(b, p) ==
    IF Array(b, p).val = 0 THEN "SNothing"
    ELSE "SJust (SlotNo " \o ToString(U64(b, p + 1).val) \o ")"

\* The value of one bound of a ValidityInterval whose array starts at p.
BoundValue(b, p) == IF Array(b, p).val = 0 THEN <<>> ELSE <<U64(b, p + 1).val>>

\* The position after the bound whose array starts at p.
BoundEnd(b, p) == IF Array(b, p).val = 0 THEN p + 1 ELSE U64(b, p + 1).pos

\* The array at p is one of the two encodings of an optional slot number.
IsBound(b, p) ==
    /\ Array(b, p).st = "ok"
    /\ Array(b, p).val \in {0, 1}
    /\ Array(b, p).val = 1 => U64(b, p + 1).st = "ok"

RequiredTag(wrapper) == IF wrapper = "CustomSet258" THEN 258 ELSE 24

\* C7: a FiniteSet (CustomSet258) decodes only under tag 258 and an
\* EmbeddedDocument (CborBytes) only under tag 24; under any other tag the decode
\* fails with no value, and the failure names the wrapper that rejected the tag.
C7_WrongTagNamesWrapper ==
    (/\ Returned
     /\ target.k \in {"CustomSet258", "CborBytes"}
     /\ Tag(buffer, 0).st = "ok"
     /\ Tag(buffer, 0).val # RequiredTag(target.k))
    => /\ result.st = "err"
       /\ result.msg = "unexpected tag while decoding " \o target.k
       /\ result.bad = Tag(buffer, 0).val

\* strs joined by commas.
RECURSIVE Commas(_)
Commas(strs) ==
    IF strs = <<>> THEN ""
    ELSE IF Len(strs) = 1 THEN Head(strs)
    ELSE Head(strs) \o "," \o Commas(Tail(strs))

\* C8: a FiniteSet of the encoded elements cs decodes to the values of cs in
\* the order read and renders as fromList [..] of their texts in that order,
\* nothing re-sorted and no duplicate removed.
C8_SetKeepsWireOrder ==
    \A cs \in SeqsUpTo(CredentialPool, MaxSetLen) :
        (/\ Returned
         /\ target.k = "CustomSet258"
         /\ buffer = EncTag(258, EncArr(cs)))
        => /\ result.st = "ok"
           /\ result.val
                  = [i \in 1..Len(cs) |-> decode(TEnum("Credential"), cs[i], 0).val]
           /\ pc = "rendered" =>
                  response.body
                      = "fromList ["
                        \o Commas([i \in 1..Len(cs) |->
                               CredentialStr(decode(TEnum("Credential"), cs[i], 0).val)])
                        \o "]"

\* A set holding an element twice, and another between the two, has been rendered.
C8_DuplicateRendered ==
    /\ target.k = "CustomSet258"
    /\ pc = "rendered"
    /\ Len(result.val) = 3
    /\ result.val[1] = result.val[3]
    /\ result.val[1] # result.val[2]

\* C9: a compound value whose array header declares a length other than one
\* discriminant plus the fields of the selected variant fails to decode.
C9_HeaderLengthChecked ==
    (/\ Returned
     /\ target.k = "Enum"
     /\ target.n # "Network"
     /\ DiscriminantOf(target.n, buffer).st = "ok"
     /\ Variant(target.n, DiscriminantOf(target.n, buffer).val).known
     /\ Array(buffer, 0).val
            # 1 + Len(Variant(target.n, DiscriminantOf(target.n, buffer).val).fields))
    => result.st = "err"

\* C10: PurposeAs looks at the type of the next value without consuming it,
\* and an unsigned integer of any encoded width takes the index path.
C10_IntegerTakesIndexPath ==
    (/\ Returned
     /\ target.k = "PurposeAs"
     /\ buffer # <<>>
     /\ U64(buffer, 0).st = "ok")
    => /\ result.st = "ok"
       /\ result.val.c = "Ix"
       /\ result.val.f = <<U64(buffer, 0).val>>

\* How many UtxosFailure arms the wire holds one inside the other from
\* position p: an array header followed by the discriminant 0.
RECURSIVE WireNesting(_, _)
WireNesting(b, p) ==
    IF DiscriminantOf("ConwayUtxoPredFailure", SubSeq(b, p + 1, Len(b))).st = "ok"
       /\ DiscriminantOf("ConwayUtxoPredFailure", SubSeq(b, p + 1, Len(b))).val = 0
    THEN 1 + WireNesting(b, p + DiscriminantOf("ConwayUtxoPredFailure",
                                               SubSeq(b, p + 1, Len(b))).pos)
    ELSE 0

\* How many UtxosFailure constructors a decoded value holds one inside the
\* other.
RECURSIVE TreeNesting(_)
TreeNesting(v) == IF v.c = "UtxosFailure" THEN 1 + TreeNesting(v.f[1]) ELSE 0

\* A ConwayUtxoPredFailure was the target and the decoder has returned.
UtxoFailureReturned ==
    Returned /\ target.k = "Enum" /\ target.n = "ConwayUtxoPredFailure"

\* C11: there is a nesting depth past which a self-wrapped UtxosFailure is
\* refused with a decode failure (a limit below MaxNesting, so that the deepest
\* payloads explored are past it), and up to which the decoded tree is as deep
\* as the wire.
C11_NestingGuarded ==
    \E limit \in 0..(MaxNesting - 1) :
        UtxoFailureReturned =>
            IF WireNesting(buffer, 0) > limit
            THEN result.st = "err"
            ELSE result.st = "ok" => TreeNesting(result.val) = WireNesting(buffer, 0)

\* A String was the target and its text is in the response.
StringRendered == pc = "rendered" /\ target.k = "String"

\* The names of the C0 control codes 0..31 in Haskell's showLitChar, the seven
\* with a letter escape under that letter.
C0Names ==
    <<"NUL", "SOH", "STX", "ETX", "EOT", "ENQ", "ACK", "a", "b", "t", "n", "v", "f",
      "r", "SO", "SI", "DLE", "DC1", "DC2", "DC3", "DC4", "NAK", "SYN", "ETB", "CAN",
      "EM", "SUB", "ESC", "FS", "GS", "RS", "US">>

\* The character is printable ASCII.
Printable(c) == c >= 32 /\ c <= 126

\* The character is a C0 control code or DEL: each of them has a named escape.
Named(c) == c \in 0..31 \/ c = 127

\* The character takes a numeric escape: it is neither printable nor named.
Numeric(c) == ~Printable(c) /\ ~Named(c)

\* What a character maps to by its class.
ClassImage(c) ==
    IF Printable(c) /\ c \notin {34, 92} THEN Ascii[c - 31]
    ELSE IF Printable(c) THEN "\\" \o Ascii[c - 31]
    ELSE IF c = 127 THEN "\\DEL"
    ELSE IF Named(c) THEN "\\" \o C0Names[c + 1]
    ELSE IF c <= 127 THEN "\\" \o Octal(c)
    ELSE "\\" \o ToString(c)

\* The marker is due after the character at position i of s.
MarkerDue(s, i) ==
    /\ i < Len(s)
    /\ \/ Numeric(s[i]) /\ s[i + 1] \in 48..57
       \/ s[i] = 14 /\ s[i + 1] = 72

\* The text of s with every character shown as at the end of the input, and
\* the marker where it is due.
RECURSIVE MarkedFrom(_, _)
MarkedFrom(s, i) ==
    IF i > Len(s) THEN ""
    ELSE ShowChar(s[i], <<>>) \o (IF MarkerDue(s, i) THEN "\\&" ELSE "")
         \o MarkedFrom(s, i + 1)

\* C12: in the text of a string, the marker \& stands after an escape exactly
\* where the escape is numeric and the next character of the input is a
\* digit, or the escape is \SO and the next character is H; nowhere else.
C12_MarkerPlacement ==
    StringRendered =>
        response.body = "\"" \o MarkedFrom(Chars(result.val), 1) \o "\""

C12_MarkersEmitted ==
    StringRendered /\ response.body = "\"\\233\\&8\\SO\\&H\""

\* What one turn of the loop pushes for the character at position i of s.
Pushed(s, i) == ShowChar(s[i], SubSeq(s, i + 1, Len(s)))

\* C13: each character maps by its class (printable ASCII copied, quote and
\* backslash escaped with a backslash, C0 codes and DEL as backslash and their
\* name, every other character as a numeric escape, octal up to 127 and
\* decimal above), the marker \& being all that may follow it, and the whole
\* stands in one pair of double quotes.
C13_ClassMapping ==
    StringRendered =>
        /\ \A i \in 1..Len(Chars(result.val)) :
               Pushed(Chars(result.val), i)
                   \in {ClassImage(Chars(result.val)[i]),
                        ClassImage(Chars(result.val)[i]) \o "\\&"}
        /\ response.body = "\"" \o ShowChars(Chars(result.val)) \o "\""

C13_EveryClassShown ==
    StringRendered /\ response.body = "\"\\\"\\SO\\233H\""

\* The target was decoded and its text is in the response.
Rendered(kinds) == pc = "rendered" /\ target.k \in kinds

\* The texts of the elements of a decoded collection, in order.
ElementTexts(t, vs) == [i \in 1..Len(vs) |-> to_haskell_str(t, vs[i])]

\* C14: a non-empty plain sequence renders as its first element, " :| [", the
\* other elements in order with one comma and no space between them, and "]".
C14_NonEmptySequence ==
    (Rendered({"Vec"}) /\ result.val # <<>>) =>
        response.body =
            ElementTexts(target.of[1], result.val)[1].s \o " :| ["
            \o Join(Tail(ElementTexts(target.of[1], result.val)), ",").s \o "]"

\* The texts of the entries of a decoded map, in the order the map yields them.
EntryTexts(t, m) ==
    [i \in 1..Len(m) |->
         R("(" \o to_haskell_str(t.of[1], Iter(m, hashSeed)[i][1]).s \o ","
               \o to_haskell_str(t.of[2], Iter(m, hashSeed)[i][2]).s \o ")")]

\* C15: a set, and a map shown as a list of pairs, render as "fromList [",
\* the elements with one comma and no space between them, and "]"; an empty
\* one as "fromList []".
C15_FromListSeparator ==
    Rendered({"CustomSet258", "HashMap"}) =>
        response.body =
            "fromList ["
            \o Join(IF target.k = "HashMap" THEN EntryTexts(target, result.val)
                    ELSE ElementTexts(target.of[1], result.val), ",").s
            \o "]"

\* An optional value was the target and its text is in the response, from
\* to_haskell_str or from as_in_map.
OptionalRendered ==
    target.k = "StrictMaybe" /\ pc \in {"rendered", "rendered_in_map"}

\* The text of the value is atomic: a bare number or a nullary constructor
\* (no type of the tree renders as a bare bracketed list).
Atomic(t, v) ==
    \/ t.k \in {"U64", "Bool"}
    \/ t.k = "I8" /\ v >= 0
    \/ t.k = "Enum" /\ v.f = <<>>

\* C16: a present optional value renders as SJust x, x in parentheses exactly
\* when it is not atomic, and an absent one as SNothing; so does every
\* renderer of optional values, the one for map positions included.
C16_OptionalParentheses ==
    OptionalRendered =>
        response.body =
            IF result.val = <<>> THEN "SNothing"
            ELSE IF Atomic(target.of[1], result.val[1])
                 THEN "SJust " \o to_haskell_str(target.of[1], result.val[1]).s
            ELSE "SJust (" \o to_haskell_str(target.of[1], result.val[1]).s \o ")"

\* NodeClient::submit_transaction has returned from the Rejected arm.
RejectionReturned ==
    /\ call.op = "NodeClient::submit_transaction"
    /\ call.reply = "Rejected"
    /\ call.at = "returned"

\* The kind of an error: its constructor and its status.
Kind(r) == <<r.kind, r.ctor, r.status>>

\* C17: the error submit_transaction returns for a rejection payload that
\* fails to decode differs in kind from the one it returns for a payload that
\* decodes to a validation failure.
C17_DecodeFailureDistinct ==
    (RejectionReturned /\ result.st = "err") =>
        Kind(call.ret) # Kind(RejectedArm(Ok(0, 0), R("")).ret)

\* How many times event e stands in a trace.
RECURSIVE Count(_, _)
Count(trace, e) ==
    IF trace = <<>> THEN 0
    ELSE (IF Head(trace) = e THEN 1 ELSE 0) + Count(Tail(trace), e)

\* The place of the one event e in a trace.
Place(trace, e) == CHOOSE i \in 1..Len(trace) : trace[i] = e

\* C18: once the state-query client is acquired, send_release is issued
\* exactly once, after the action has completed and before the return of
\* with_statequery (of sync_progress), whether the action gave Ok or Err; and
\* nothing returns from there without it.
C18_ReleasedOnce ==
    /\ (Count(call.trace, "acquired") = 1 /\ call.at \in {"returned", "submitting"}) =>
           /\ Count(call.trace, "action") = 1
           /\ Count(call.trace, "release") = 1
           /\ Count(call.trace, "return") = 1
           /\ Place(call.trace, "action") < Place(call.trace, "release")
           /\ Place(call.trace, "release") < Place(call.trace, "return")
    /\ Count(call.trace, "release") <= 1

C18_ReleasedAfterErr ==
    /\ call.op = "Node::sync_progress"
    /\ call.at = "returned"
    /\ call.ret = internal_server_error
    /\ call.trace = <<"acquire", "acquired", "action", "release", "return">>

\* A submission has come to its end.
SubmitEnded == call.op \in Submitters /\ call.at \in {"returned", "panicked"}

\* C19: submit_transaction returns Ok exactly when the node accepted; after a
\* rejection it returns a 400 error that carries the JSON envelope, after a
\* transport error a 400 error; never Ok after a rejection.
C19_SubmitOutcome ==
    SubmitEnded =>
        /\ call.ret.kind = "Ok" <=> call.reply = "Accepted"
        /\ call.reply = "Rejected" =>
               /\ call.ret.kind = "Err"
               /\ call.ret.status = 400
               /\ call.ret.form = "envelope"
        /\ call.reply = "TransportError" =>
               call.ret.kind = "Err" /\ call.ret.status = 400


\* C20: whatever the order the invocations run in, each gives what it gives
\* when it runs alone; none reads or writes state another one reads or writes.
C20_SameAsAlone ==
    \A i \in 1..Len(tasks) : tasks[i].st = "done" => tasks[i].out = tasks[i].alone

\* C21: the rendered output depends on the input bytes alone: two runs of
\* decode-then-render on the same payload give the same output, the entries of
\* a map of two or more entries in the same order in both.
C21_SameBytesSameOutput ==
    \A i, j \in 1..Len(tasks) :
        (/\ tasks[i].st = "done"
         /\ tasks[j].st = "done"
         /\ tasks[i].buffer = tasks[j].buffer) => tasks[i].out = tasks[j].out


\* The end of the CBOR data item that starts at p, by the item's own framing
\* (head, then content or members); -1 when the bytes do not hold a whole item.
RECURSIVE ItemEnd(_, _), ItemsEnd(_, _, _)
ItemEnd(b, p) ==
    IF p < 0 \/ p >= Len(b) THEN -1
    ELSE IF InfoOf(b[p + 1]) = 31
         THEN (IF MajorType(b[p + 1]) \in {4, 5} THEN ItemsEnd(b, p + 1, -1) ELSE -1)
    ELSE IF Unsigned(b, p + 1, InfoOf(b[p + 1])).st # "ok" THEN -1
    ELSE CASE MajorType(b[p + 1]) \in {0, 1, 7} -> Unsigned(b, p + 1, InfoOf(b[p + 1])).pos
           [] MajorType(b[p + 1]) \in {2, 3} ->
                  (IF Content(b, Unsigned(b, p + 1, InfoOf(b[p + 1]))).st = "ok"
                   THEN Content(b, Unsigned(b, p + 1, InfoOf(b[p + 1]))).pos ELSE -1)
           [] MajorType(b[p + 1]) = 4 ->
                  ItemsEnd(b, Unsigned(b, p + 1, InfoOf(b[p + 1])).pos,
                           Unsigned(b, p + 1, InfoOf(b[p + 1])).val)
           [] MajorType(b[p + 1]) = 5 ->
                  ItemsEnd(b, Unsigned(b, p + 1, InfoOf(b[p + 1])).pos,
                           2 * Unsigned(b, p + 1, InfoOf(b[p + 1])).val)
           [] OTHER -> ItemEnd(b, Unsigned(b, p + 1, InfoOf(b[p + 1])).pos)
ItemsEnd(b, p, n) ==
    IF p = -1 THEN -1
    ELSE IF n = 0 THEN p
    ELSE IF n = -1
         THEN (IF p >= Len(b) THEN -1
               ELSE IF b[p + 1] = 255 THEN p + 1
               ELSE ItemsEnd(b, ItemEnd(b, p), -1))
    ELSE ItemsEnd(b, ItemEnd(b, p), n - 1)

\* The values the decoder treats as compound: the enum contexts and the
\* transaction output.
Compound == target.k = "Enum" \/ target.k = "BabbageTxOut"

\* C22: a successful decode of a compound value consumes all its wire fields and
\* leaves the decoder on the first byte after the value, for every enum context
\* and accepted discriminant, CollectErrors and the 2- and 3-entry output maps
\* included.
C22_DecoderAfterValue ==
    (/\ pc = "decoded"
     /\ Compound
     /\ result.st = "ok"
     /\ ItemEnd(buffer, 0) # -1) => result.pos = ItemEnd(buffer, 0)


\* The header of the error array of a rejection payload, read after the outer
\* array header and the era.
ErrorArray(b) ==
    Then(Array(b, 0), LAMBDA a :
    Then(decode(TEnum("ShelleyBasedEra"), b, a.pos), LAMBDA era : Array(b, era.pos)))

\* The wire positions of the first n members of the array whose members start
\* at p.
RECURSIVE ElementStarts(_, _, _)
ElementStarts(b, p, n) ==
    IF n = 0 \/ p = -1 THEN <<>> ELSE <<p>> \o ElementStarts(b, ItemEnd(b, p), n - 1)

\* Each element of the error array decoded on its own, from its own array
\* header.
ElementsAlone(b) ==
    [i \in 1..ErrorArray(b).val |->
        decode(TEnum("ApplyConwayTxPredError"), b,
               ElementStarts(b, ErrorArray(b).pos, ErrorArray(b).val)[i])]

\* A rejection payload that is one whole data item with a definite error array.
WholeRejection ==
    /\ target.k = "TxValidationError"
    /\ ItemEnd(buffer, 0) = Len(buffer)
    /\ ErrorArray(buffer).st = "ok"
    /\ ErrorArray(buffer).val >= 0

\* C23: decoding the list of errors is all-or-nothing: when an element of the
\* error array fails to decode the whole decode returns that failure and no
\* list, and when all decode the list holds one entry per array element in wire
\* order.
C23_AllOrNothing ==
    (pc # "start" /\ pc # "outside" /\ WholeRejection) =>
        IF \E i \in 1..ErrorArray(buffer).val : ElementsAlone(buffer)[i].st # "ok"
        THEN result.st = "err"
        ELSE /\ result.st = "ok"
             /\ result.val.error = [i \in 1..ErrorArray(buffer).val |->
                                        ElementsAlone(buffer)[i].val]

\* One sequence is the beginning of the other.
IsPrefix(s, t) == Len(s) <= Len(t) /\ SubSeq(t, 1, Len(s)) = s

\* The steps of NodeClient::submit_transaction in the order of the code.
SubmitSteps == <<"hex", "acquire", "acquired", "action", "release", "return", "submit">>

C25_TwoBytesRemoved ==
    (call.op = "NodeClient::submit_transaction" /\ call.reply = "Rejected") =>
        IF Len(call.reason) < 2
        THEN call.at = "returned" /\ call.ret.kind = "Err"
        ELSE buffer = SubSeq(call.reason, 3, Len(call.reason))

\* C26: the StrictMaybe decoder and the ValidityInterval bound decoder classify
\* every array header the same way, for each definite length and for an
\* indefinite header: they agree on whether the value is present, and both
\* consume every element the header announces.
C26_OptionalDecodersAgree ==
    (/\ pc = "decoded"
     /\ target = TStrictMaybe(T("SlotNo"))
     /\ ItemEnd(buffer, 0) = Len(buffer)
     /\ decodeBound(buffer, 0).st = "ok") =>
        /\ (result.val = <<>>) <=> (decodeBound(buffer, 0).val = <<>>)
        /\ result.pos = Len(buffer)
        /\ decodeBound(buffer, 0).pos = Len(buffer)

\* Every text of the input pools with what haskell_show_string makes of it.
ShownTexts ==
    {<<Str(in.b, 0).val, haskell_show_string(Chars(Str(in.b, 0).val))>> :
         in \in TextInputs \cup EscapeInputs}

\* C27: haskell_show_string is injective: two different input strings never
\* produce the same output, in particular not SOH and SO followed by 'H', and
\* not a numeric escape followed by a digit and the escape of a larger code
\* point.
C27_ShowStringInjective ==
    StringRendered =>
        \A shown \in ShownTexts : shown[2] = response.body => shown[1] = result.val

\* SO followed by 'H' has been rendered, and so has a numeric escape followed by
\* a digit.
C27_ConfusableRendered ==
    /\ StringRendered
    /\ Chars(result.val) \in {<<14, 72>>, <<128, 49>>}

\* C28: try_decode_error returns Ok only when the whole buffer has been
\* consumed: a valid TxValidationError followed by extra bytes is a decode
\* failure, not the tree of the valid prefix.
C28_WholeBufferConsumed ==
    (/\ pc # "start"
     /\ target.k = "TxValidationError"
     /\ result.st = "ok") => result.pos = Len(buffer)

\* C29: RewardAccountFielded::new derives both fields from the header byte, for
\* the four headers e0, e1, f0, f1: the low nibble gives the network (0 Testnet,
\* 1 Mainnet), the high nibble the credential kind (e key hash, f script hash),
\* and the credential holds exactly the bytes after the header.
C29_HeaderDerivesFields ==
    (/\ pc = "decoded"
     /\ [t |-> target, b |-> buffer] \in AccountInputs) =>
        /\ result.val.ra_network =
               IF Head(Bytes(buffer, 0).val) % 16 = 0 THEN "Testnet" ELSE "Mainnet"
        /\ result.val.ra_credential.c =
               IF Head(Bytes(buffer, 0).val) \div 16 = 14
               THEN "KeyHashObj" ELSE "ScriptHashObj"
        /\ result.val.ra_credential.f = <<Tail(Bytes(buffer, 0).val)>>

\* C30: Args::to_config yields an Icebreakers configuration holding the supplied
\* reward address and secret exactly when solitary mode is off and both values
\* are supplied, and none when solitary mode is on.
C30_IcebreakersUnlessSolitary ==
    cli.at = "configured" =>
        cli.config.icebreakers_config =
            IF /\ ~cli.args.solitary
               /\ cli.args.reward_address # None
               /\ cli.args.secret # None
            THEN Some([reward_address |-> cli.args.reward_address[1],
                       secret |-> cli.args.secret[1]])
            ELSE None

====
